---- MODULE Spec2Model ----
(***************************************************************************)
(* Real-time fan-out layer of findam-rencontre: the chat consumer          *)
(* (messaging/consumers.py), the JWT handshake (findam/asgi.py), the       *)
(* notification service and consumer (notifications/).                     *)
(*                                                                         *)
(* One handler runs at a time per connection (the consumer dispatches its  *)
(* events sequentially); handlers of different connections interleave at   *)
(* their awaits, so every await of a handler is one step of the model.     *)
(* A group_send is delivered by the receiving consumer's forwarding        *)
(* handler (chat_message, conversation_update, ...) in FIFO order; the     *)
(* queue hop is folded into the send, so sent[c] is the sequence of frames *)
(* written to connection c's socket.                                       *)
(***************************************************************************)
EXTENDS Integers, Sequences, FiniteSets, TLC

None == "None"

\* scope["user"] = None
NoUser == 0

\* The token of a connection whose handshake has not happened yet.
NoToken == [kind |-> "unset", user_id |-> 0]

\* Rows of the User table, and the ids a signed token may carry (4 has no row).
Users == 1..3
UserIds == 1..4

\* Transport-level connections, numbered in the order of their handshakes; each
\* channel name is used once.
Conns == 1..3

\* Conversation ids a client may name; only those in DOMAIN conversations exist.
ConvIds == 1..2

\* Bound: handshakes, closes and inbound frames handled over all connections.
MaxOps == 4

\* Bound: handshakes and closes of notification connections, calls of the
\* notification service and preference edits (they share the counter of the operations).
MaxCalls == 3

\* Every message costs a frame, so ids stay within the bound.
MsgIds == 1..MaxOps

Contents == {"hi"}
MessageTypes == {"TEXT"}

VARIABLES
    connState,      \* [Conns -> {"new", "open", "closed", "refused"}]
    token,          \* [Conns -> Tokens \cup {NoToken}]: the handshake's token
    endpoint,       \* [Conns -> {"chat", "notifications", None}]: the route of the handshake
    groups,         \* channel layer: [GroupNames -> SUBSET Conns]
    pc,             \* [Conns -> handler position]
    sent,           \* [Conns -> Seq(frame)]: frames written to the socket
    conversations,  \* Conversation table: id -> [participants, is_active, updated_at]
    messages,       \* Message table: a sequence, the index is the id
    receipts,       \* MessageReceipt table: <<message, recipient>> -> status
    now,            \* timezone.now()
    connectedAt,    \* history: [Conns -> number of messages that existed at the handshake]
    prefs,          \* NotificationPreference table: a set of rows [id, user, flags]
    notifications,  \* Notification table: a sequence, the index is the id
    deviceTokens,   \* DeviceToken table: a set of rows
    emailed,        \* history: ids of the notifications send_mail was called for
    pushed,         \* history: ids of the notifications a push was sent for
    wpc,            \* [Workers -> position of the service call the request thread runs]
    ops             \* handshakes, closes, inbound frames and service calls so far

vars == <<connState, token, endpoint, groups, pc, sent, conversations, messages,
          receipts, now, connectedAt, prefs, notifications, deviceTokens, emailed,
          pushed, wpc, ops>>

chatDb == <<conversations, messages, receipts, now>>

notifDb == <<prefs, notifications, deviceTokens, emailed, pushed, wpc>>

-----------------------------------------------------------------------------
(* Handshake *)

\* What a client may present: no token, an undecodable one, one that was issued to
\* user 1 and has expired, or a well-signed one carrying a user id.
Tokens ==
    {[kind |-> k, user_id |-> 0] : k \in {"missing", "malformed"}}
    \cup {[kind |-> "expired", user_id |-> 1]}
    \cup {[kind |-> "valid", user_id |-> u] : u \in UserIds}

get_user(user_id) == IF user_id \in Users THEN user_id ELSE NoUser

\* A middleware that skipped UntypedToken's validation would take an expired
\* token's user id as it stands.
JWTAuthMiddleware_without_validation(t) ==
    IF t.kind \in {"unset", "missing"} THEN NoUser
    ELSE IF t.kind \in {"malformed"} THEN NoUser
    ELSE get_user(t.user_id)

\* scope["user"] as the middleware leaves it.
JWTAuthMiddleware(t) ==
    IF t.kind \in {"unset", "missing"} THEN NoUser
    ELSE IF t.kind \in {"malformed", "expired"} THEN NoUser
    ELSE get_user(t.user_id)

ScopeUser(c) == JWTAuthMiddleware(token[c])

-----------------------------------------------------------------------------
(* Channel layer *)

GroupNames ==
    ({"user", "notifications"} \X Users) \cup ({"conversation"} \X ConvIds)

group_add(g, c) == [groups EXCEPT ![g] = @ \cup {c}]

group_discard(g, c) == [groups EXCEPT ![g] = @ \ {c}]

\* A handler that forwarded the event as it came would leave is_sender False.
chat_message_unadjusted(c, ev) ==
    [type |-> "new_message", message |-> ev.message, conversation |-> ev.conversation,
     user |-> ev.user, is_sender |-> FALSE, items |-> <<>>]

\* Forwarding handlers of the chat consumer: the frame connection c writes for event ev.
chat_message(c, ev) ==
    [type |-> "new_message", message |-> ev.message, conversation |-> ev.conversation,
     user |-> ev.user, is_sender |-> (ev.user = ScopeUser(c)), items |-> <<>>]

Forward(c, ev) ==
    IF ev.type = "chat_message" THEN chat_message(c, ev)
    ELSE [type |-> ev.type, message |-> ev.message, conversation |-> ev.conversation,
          user |-> ev.user, is_sender |-> FALSE, items |-> <<>>]

\* A layer that ignored group membership would hand the event to every live connection.
group_send_ignoring_membership(g, ev) ==
    [c \in Conns |->
        IF connState[c] = "open"
        THEN Append(sent[c], Forward(c, ev))
        ELSE sent[c]]

\* group_send: every live member of the group handles the event.
group_send(g, ev) ==
    [c \in Conns |->
        IF c \in groups[g] /\ connState[c] = "open"
        THEN Append(sent[c], Forward(c, ev))
        ELSE sent[c]]

\* self.send of a frame on connection c.
send(c, frame) == [sent EXCEPT ![c] = Append(@, frame)]

Frame(type, m, k, u) ==
    [type |-> type, message |-> m, conversation |-> k, user |-> u, is_sender |-> FALSE,
     items |-> <<>>]

-----------------------------------------------------------------------------
(* Handler positions *)

At(op, m, k, p, todo) == [op |-> op, m |-> m, conv |-> k, p |-> p, todo |-> todo]

Idle == At("idle", 0, 0, 0, {})

CanReceive(c) ==
    /\ connState[c] = "open"
    /\ endpoint[c] = "chat"
    /\ pc[c].op = "idle"
    /\ ops < MaxOps

-----------------------------------------------------------------------------
(* Database helpers of the chat consumer *)

NoReceipt == "NONE"

Rank(s) == CASE s = "NONE" -> 0 [] s = "SENT" -> 1 [] s = "DELIVERED" -> 2 [] s = "READ" -> 3

user_in_conversation(u, k) ==
    k \in DOMAIN conversations /\ u \in conversations[k].participants

get_participants(k) ==
    IF k \in DOMAIN conversations THEN conversations[k].participants ELSE {}

\* get_or_create(defaults = status), then a save when the row existed with another status.
create_message_receipt(m, r, status) ==
    IF receipts[<<m, r>>] = NoReceipt
    THEN [receipts EXCEPT ![<<m, r>>] = status]
    ELSE IF receipts[<<m, r>>] # status
         THEN [receipts EXCEPT ![<<m, r>>] = status]
         ELSE receipts

\* The queryset of mark_messages_as_delivered, evaluated when the loop starts.
unread_messages(u, k) ==
    {m \in 1..Len(messages) :
        /\ messages[m].conversation = k
        /\ ~messages[m].is_read
        /\ messages[m].sender # u}

-----------------------------------------------------------------------------
(* ChatConsumer.connect / disconnect *)

ChatConnect(c, t) ==
    /\ connState[c] = "new"
    /\ \A d \in Conns : d < c => connState[d] # "new"
    /\ ops < MaxOps
    /\ ops' = ops + 1
    /\ token' = [token EXCEPT ![c] = t]
    /\ endpoint' = [endpoint EXCEPT ![c] = "chat"]
    /\ IF JWTAuthMiddleware(t) = NoUser
       THEN /\ connState' = [connState EXCEPT ![c] = "refused"]
            /\ UNCHANGED <<groups, connectedAt>>
       ELSE /\ groups' = group_add(<<"user", JWTAuthMiddleware(t)>>, c)
            /\ connState' = [connState EXCEPT ![c] = "open"]
            /\ connectedAt' = [connectedAt EXCEPT ![c] = Len(messages)]
    /\ UNCHANGED <<pc, sent, chatDb>>
    /\ UNCHANGED notifDb

ChatDisconnect(c) ==
    /\ connState[c] = "open"
    /\ endpoint[c] = "chat"
    /\ pc[c].op = "idle"
    /\ ops < MaxOps
    /\ ops' = ops + 1
    /\ groups' = group_discard(<<"user", ScopeUser(c)>>, c)
    /\ connState' = [connState EXCEPT ![c] = "closed"]
    /\ UNCHANGED <<token, endpoint, connectedAt, pc, sent, chatDb>>
    /\ UNCHANGED notifDb

-----------------------------------------------------------------------------
(* receive: send_message *)

\* The loop over the participants: the next one in an order the query does not fix.
SmNext(c, m, k, todo) ==
    IF todo = {}
    THEN pc' = [pc EXCEPT ![c] = Idle]
    ELSE \E p \in todo :
            pc' = [pc EXCEPT ![c] =
                      At(IF p # ScopeUser(c) THEN "sm_receipt" ELSE "sm_chat",
                         m, k, p, todo \ {p})]

\* create_message: the conversation exists and the sender is a participant.
create_message_ok(k, sender) ==
    /\ k \in DOMAIN conversations
    /\ sender \in conversations[k].participants

ReceiveSendMessage(c, k, content, message_type) ==
    /\ CanReceive(c)
    /\ ops' = ops + 1
    /\ IF create_message_ok(k, ScopeUser(c))
       THEN /\ messages' = Append(messages,
                  [conversation |-> k, sender |-> ScopeUser(c), content |-> content,
                   message_type |-> message_type, is_read |-> FALSE])
            /\ now' = now + 1
            /\ conversations' = [conversations EXCEPT ![k].updated_at = now']
            /\ pc' = [pc EXCEPT ![c] = At("sm_fetch", Len(messages) + 1, k, 0, {})]
       ELSE UNCHANGED <<messages, now, conversations, pc>>
    /\ UNCHANGED <<connState, token, endpoint, connectedAt, groups, sent, receipts>>
    /\ UNCHANGED notifDb

\* get_conversation and get_participants
SmFetch(c) ==
    /\ pc[c].op = "sm_fetch"
    /\ SmNext(c, pc[c].m, pc[c].conv, get_participants(pc[c].conv))
    /\ UNCHANGED <<connState, token, endpoint, connectedAt, groups, sent, chatDb, ops>>
    /\ UNCHANGED notifDb

\* create_message_receipt(SENT) for a recipient; an exception in it is swallowed.
SmReceipt(c) ==
    /\ pc[c].op = "sm_receipt"
    /\ \/ receipts' = create_message_receipt(pc[c].m, pc[c].p, "SENT")
       \/ UNCHANGED receipts
    /\ pc' = [pc EXCEPT ![c].op = "sm_chat"]
    /\ UNCHANGED <<connState, token, endpoint, connectedAt, groups, sent, conversations, messages,
                   now, ops>>
    /\ UNCHANGED notifDb

SmChat(c) ==
    /\ pc[c].op = "sm_chat"
    /\ sent' = group_send(<<"user", pc[c].p>>,
                          Frame("chat_message", pc[c].m, pc[c].conv, ScopeUser(c)))
    /\ pc' = [pc EXCEPT ![c].op = "sm_update"]
    /\ UNCHANGED <<connState, token, endpoint, connectedAt, groups, chatDb, ops>>
    /\ UNCHANGED notifDb

SmUpdate(c) ==
    /\ pc[c].op = "sm_update"
    /\ sent' = group_send(<<"user", pc[c].p>>,
                          Frame("conversation_update", pc[c].m, pc[c].conv, ScopeUser(c)))
    /\ SmNext(c, pc[c].m, pc[c].conv, pc[c].todo)
    /\ UNCHANGED <<connState, token, endpoint, connectedAt, groups, chatDb, ops>>
    /\ UNCHANGED notifDb

-----------------------------------------------------------------------------
(* receive: mark_as_read *)

\* mark_message_as_read: the message row after the call (the caller's own are left alone).
mark_message_as_read(c, m) ==
    IF messages[m].sender # ScopeUser(c)
    THEN [messages EXCEPT ![m].is_read = TRUE]
    ELSE messages

ReceiveMarkAsRead(c, m) ==
    /\ CanReceive(c)
    /\ ops' = ops + 1
    /\ IF m \in 1..Len(messages)
       THEN /\ messages' = mark_message_as_read(c, m)
            /\ pc' = [pc EXCEPT ![c] = At("mar_receipt", m, messages[m].conversation, 0, {})]
       ELSE UNCHANGED <<messages, pc>>
    /\ UNCHANGED <<connState, token, endpoint, connectedAt, groups, sent, conversations, receipts, now>>
    /\ UNCHANGED notifDb

MarReceipt(c) ==
    /\ pc[c].op = "mar_receipt"
    /\ \/ receipts' = create_message_receipt(pc[c].m, ScopeUser(c), "READ")
       \/ UNCHANGED receipts
    /\ pc' = [pc EXCEPT ![c].op = "mar_notify"]
    /\ UNCHANGED <<connState, token, endpoint, connectedAt, groups, sent, conversations, messages,
                   now, ops>>
    /\ UNCHANGED notifDb

\* A notification addressed to the reader's own group instead of the author's.
MarNotify_to_reader(c) ==
    /\ pc[c].op = "mar_notify"
    /\ sent' = group_send(<<"user", ScopeUser(c)>>,
                          Frame("message_read", pc[c].m, pc[c].conv, ScopeUser(c)))
    /\ pc' = [pc EXCEPT ![c] = Idle]
    /\ UNCHANGED <<connState, token, endpoint, connectedAt, groups, chatDb, ops>>
    /\ UNCHANGED notifDb

MarNotify(c) ==
    /\ pc[c].op = "mar_notify"
    /\ sent' = group_send(<<"user", messages[pc[c].m].sender>>,
                          Frame("message_read", pc[c].m, pc[c].conv, ScopeUser(c)))
    /\ pc' = [pc EXCEPT ![c] = Idle]
    /\ UNCHANGED <<connState, token, endpoint, connectedAt, groups, chatDb, ops>>
    /\ UNCHANGED notifDb

-----------------------------------------------------------------------------
(* receive: join_conversation / leave_conversation *)

ReceiveJoin(c, k) ==
    /\ CanReceive(c)
    /\ ops' = ops + 1
    /\ IF user_in_conversation(ScopeUser(c), k)
       THEN /\ groups' = group_add(<<"conversation", k>>, c)
            /\ pc' = [pc EXCEPT ![c] = At("join_query", 0, k, 0, {})]
       ELSE UNCHANGED <<groups, pc>>
    /\ UNCHANGED <<connState, token, endpoint, connectedAt, sent, chatDb>>
    /\ UNCHANGED notifDb

\* mark_messages_as_delivered: the queryset is read when the loop starts
JoinQuery(c) ==
    /\ pc[c].op = "join_query"
    /\ pc' = [pc EXCEPT ![c] =
                 At("join_loop", 0, pc[c].conv, 0, unread_messages(ScopeUser(c), pc[c].conv))]
    /\ UNCHANGED <<connState, token, endpoint, connectedAt, groups, sent, chatDb, ops>>
    /\ UNCHANGED notifDb

Min(S) == CHOOSE x \in S : \A y \in S : x <= y

\* one turn of the loop: get_or_create(DELIVERED), and a save when the row differs
mark_delivered(m, r) ==
    IF receipts[<<m, r>>] = NoReceipt
    THEN [receipts EXCEPT ![<<m, r>>] = "DELIVERED"]
    ELSE IF receipts[<<m, r>>] # "DELIVERED"
         THEN [receipts EXCEPT ![<<m, r>>] = "DELIVERED"]
         ELSE receipts

JoinUpsert(c) ==
    /\ pc[c].op = "join_loop"
    /\ pc[c].todo # {}
    /\ receipts' = mark_delivered(Min(pc[c].todo), ScopeUser(c))
    /\ pc' = [pc EXCEPT ![c].todo = @ \ {Min(pc[c].todo)}]
    /\ UNCHANGED <<connState, token, endpoint, connectedAt, groups, sent, conversations, messages,
                   now, ops>>
    /\ UNCHANGED notifDb

\* An acknowledgement sent through the user's group would reach all of the user's connections.
JoinAck_through_group(c) ==
    /\ pc[c].op = "join_loop"
    /\ pc[c].todo = {}
    /\ sent' = group_send(<<"user", ScopeUser(c)>>,
                          Frame("conversation_joined", 0, pc[c].conv, 0))
    /\ pc' = [pc EXCEPT ![c] = Idle]
    /\ UNCHANGED <<connState, token, endpoint, connectedAt, groups, chatDb, ops>>
    /\ UNCHANGED notifDb

JoinAck(c) ==
    /\ pc[c].op = "join_loop"
    /\ pc[c].todo = {}
    /\ sent' = send(c, Frame("conversation_joined", 0, pc[c].conv, 0))
    /\ pc' = [pc EXCEPT ![c] = Idle]
    /\ UNCHANGED <<connState, token, endpoint, connectedAt, groups, chatDb, ops>>
    /\ UNCHANGED notifDb

ReceiveLeave(c, k) ==
    /\ CanReceive(c)
    /\ ops' = ops + 1
    /\ groups' = group_discard(<<"conversation", k>>, c)
    /\ sent' = send(c, Frame("conversation_left", 0, k, 0))
    /\ UNCHANGED <<connState, token, endpoint, connectedAt, pc, chatDb>>
    /\ UNCHANGED notifDb

-----------------------------------------------------------------------------
(* receive: typing, and a frame json.loads rejects *)

\* A typing action that skipped user_in_conversation.
ReceiveTyping_unchecked(c, k) ==
    /\ CanReceive(c)
    /\ ops' = ops + 1
    /\ IF k \in DOMAIN conversations
       THEN pc' = [pc EXCEPT ![c] =
                      At("typing", 0, k, 0, get_participants(k) \ {ScopeUser(c)})]
       ELSE UNCHANGED pc
    /\ UNCHANGED <<connState, token, endpoint, connectedAt, groups, sent, chatDb>>
    /\ UNCHANGED notifDb

ReceiveTyping(c, k) ==
    /\ CanReceive(c)
    /\ ops' = ops + 1
    /\ IF user_in_conversation(ScopeUser(c), k)
       THEN pc' = [pc EXCEPT ![c] =
                      At("typing", 0, k, 0, get_participants(k) \ {ScopeUser(c)})]
       ELSE UNCHANGED pc
    /\ UNCHANGED <<connState, token, endpoint, connectedAt, groups, sent, chatDb>>
    /\ UNCHANGED notifDb

TypingSend(c) ==
    /\ pc[c].op = "typing"
    /\ IF pc[c].todo = {}
       THEN /\ pc' = [pc EXCEPT ![c] = Idle]
            /\ UNCHANGED sent
       ELSE \E p \in pc[c].todo :
              /\ sent' = group_send(<<"user", p>>,
                                    Frame("user_typing", 0, pc[c].conv, ScopeUser(c)))
              /\ pc' = [pc EXCEPT ![c] =
                           IF pc[c].todo = {p} THEN Idle ELSE [pc[c] EXCEPT !.todo = @ \ {p}]]
    /\ UNCHANGED <<connState, token, endpoint, connectedAt, groups, chatDb, ops>>
    /\ UNCHANGED notifDb

ReceiveMalformed(c) ==
    /\ CanReceive(c)
    /\ ops' = ops + 1
    /\ sent' = send(c, Frame("error", 0, 0, 0))
    /\ UNCHANGED <<connState, token, endpoint, connectedAt, groups, pc, chatDb>>
    /\ UNCHANGED notifDb

-----------------------------------------------------------------------------
(* receive: an exception inside the try block *)

\* The awaits of receive that can raise into its except clause: the reads of the
\* database that catch DoesNotExist only, and the sends through the channel layer.
\* create_message and create_message_receipt catch everything themselves.
RaisingOps == {"sm_fetch", "sm_chat", "sm_update", "mar_notify", "join_query", "join_loop",
               "typing"}

\* An except clause that answered through the user's group would reach every
\* connection of the user.
Raise_through_group(c) ==
    /\ pc[c].op \in RaisingOps
    /\ sent' = group_send(<<"user", ScopeUser(c)>>, Frame("error", 0, 0, 0))
    /\ pc' = [pc EXCEPT ![c] = Idle]
    /\ UNCHANGED <<connState, token, endpoint, connectedAt, groups, chatDb, ops>>
    /\ UNCHANGED notifDb

\* except Exception: the handler ends with an error frame on its own connection
Raise(c) ==
    /\ pc[c].op \in RaisingOps
    /\ sent' = send(c, Frame("error", 0, 0, 0))
    /\ pc' = [pc EXCEPT ![c] = Idle]
    /\ UNCHANGED <<connState, token, endpoint, connectedAt, groups, chatDb, ops>>
    /\ UNCHANGED notifDb

-----------------------------------------------------------------------------
(* Notification tables *)

\* Request threads running calls of NotificationService.
Workers == 1..2

\* Literal push-token values a device may present.
PushTokens == {"T"}

NotificationTypes == {"MATCH", "MESSAGE", "LIKE", "EVENT", "SUBSCRIPTION", "SYSTEM"}

\* The types and the preference fields the requests of the model use.
SentTypes == {"LIKE", "SYSTEM"}

\* The user ids the service requests of the model name (4 has no row).
CallerIds == {1, 2, 4}
EditedFields == {"likes", "system", "receive_email"}

PrefFields ==
    {"receive_email", "receive_push", "matches", "messages", "likes", "events",
     "subscription", "system"}

\* Every BooleanField of NotificationPreference has default=True.
DefaultPref == [f \in PrefFields |-> TRUE]

\* notification_type.lower()
Lower(t) ==
    CASE t = "MATCH" -> "match"
      [] t = "MESSAGE" -> "message"
      [] t = "LIKE" -> "like"
      [] t = "EVENT" -> "event"
      [] t = "SUBSCRIPTION" -> "subscription"
      [] t = "SYSTEM" -> "system"

\* getattr(preferences, name, True)
getattr(pref, name) == IF name \in DOMAIN pref THEN pref[name] ELSE TRUE

should_send(pref, notification_type) == getattr(pref, Lower(notification_type))

NextId(rows) ==
    IF rows = {} THEN 1 ELSE 1 + (CHOOSE i \in {r.id : r \in rows} : \A r \in rows : r.id <= i)

HasPref(u) == \E r \in prefs : r.user = u

PrefOf(u) == CHOOSE r \in prefs : r.user = u

\* NotificationPreference.objects.get_or_create(user=recipient): the table afterwards
prefs_get_or_create(u) ==
    IF HasPref(u) THEN prefs
    ELSE prefs \cup {[id |-> NextId(prefs), user |-> u, flags |-> DefaultPref]}

\* A filter on the user alone would also return the deactivated tokens.
ActiveTokens_with_deactivated(u) == {r \in deviceTokens : r.user = u}

\* DeviceToken.objects.filter(user=recipient, is_active=True)
ActiveTokens(u) == {r \in deviceTokens : r.user = u /\ r.is_active}

TokenRows(t) == {r \in deviceTokens : r.token = t}

\* Without the unique constraint every INSERT would go through.
token_insert_unconstrained(t) == TRUE

\* unique=True on DeviceToken.token: the INSERT of a second row with the token fails.
token_insert_allowed(t) == TokenRows(t) = {}

RECURSIVE DescSeq(_)
DescSeq(S) ==
    IF S = {} THEN <<>>
    ELSE LET x == CHOOSE y \in S : \A z \in S : z <= y
         IN <<x>> \o DescSeq(S \ {x})

\* The slice [:20] of get_unread_notifications.
UnreadLimit == 20

Take(q, n) == SubSeq(q, 1, IF Len(q) < n THEN Len(q) ELSE n)

\* filter(recipient=user, is_read=False).order_by('-created_at')[:20], as ids
get_unread_notifications(u) ==
    Take(DescSeq({n \in 1..Len(notifications) :
                     notifications[n].recipient = u /\ ~notifications[n].is_read}),
         UnreadLimit)

WAt(op, u, nt, se, sp, pref, n, tok, row) ==
    [op |-> op, user |-> u, ntype |-> nt, send_email |-> se, send_push |-> sp,
     pref |-> pref, n |-> n, tok |-> tok, row |-> row, clock |-> 0]

WIdle == WAt("idle", 0, "", FALSE, FALSE, DefaultPref, 0, "", 0)

\* A request is served by the first free thread.
CanCall(w) ==
    /\ wpc[w].op = "idle"
    /\ \A v \in Workers : v < w => wpc[v].op # "idle"
    /\ ops < MaxCalls

-----------------------------------------------------------------------------
(* NotificationConsumer.connect / disconnect *)

\* self.user.is_anonymous raises on scope["user"] = None: the handshake dies before
\* the group is joined.
\* A connect that accepted without joining the user's group first.
NotifConnect_without_join(c, t) ==
    /\ connState[c] = "new"
    /\ \A d \in Conns : d < c => connState[d] # "new"
    /\ ops < MaxCalls
    /\ ops' = ops + 1
    /\ token' = [token EXCEPT ![c] = t]
    /\ endpoint' = [endpoint EXCEPT ![c] = "notifications"]
    /\ IF JWTAuthMiddleware(t) = NoUser
       THEN /\ connState' = [connState EXCEPT ![c] = "refused"]
            /\ UNCHANGED <<groups, pc>>
       ELSE /\ UNCHANGED groups
            /\ connState' = [connState EXCEPT ![c] = "open"]
            /\ pc' = [pc EXCEPT ![c] = At("nc_unread", 0, 0, 0, {})]
    /\ UNCHANGED <<connectedAt, sent, chatDb, notifDb>>

NotifConnect(c, t) ==
    /\ connState[c] = "new"
    /\ \A d \in Conns : d < c => connState[d] # "new"
    /\ ops < MaxCalls
    /\ ops' = ops + 1
    /\ token' = [token EXCEPT ![c] = t]
    /\ endpoint' = [endpoint EXCEPT ![c] = "notifications"]
    /\ IF JWTAuthMiddleware(t) = NoUser
       THEN /\ connState' = [connState EXCEPT ![c] = "refused"]
            /\ UNCHANGED <<groups, pc>>
       ELSE /\ groups' = group_add(<<"notifications", JWTAuthMiddleware(t)>>, c)
            /\ connState' = [connState EXCEPT ![c] = "open"]
            /\ pc' = [pc EXCEPT ![c] = At("nc_unread", 0, 0, 0, {})]
    /\ UNCHANGED <<connectedAt, sent, chatDb, notifDb>>

\* connect, after accept: the unread notifications, when there are any
NotifUnread(c) ==
    /\ pc[c].op = "nc_unread"
    /\ LET unread == get_unread_notifications(ScopeUser(c))
       IN sent' = IF unread = <<>> THEN sent
                  ELSE send(c, [Frame("unread_notifications", 0, 0, 0)
                                   EXCEPT !.items = unread])
    /\ pc' = [pc EXCEPT ![c] = Idle]
    /\ UNCHANGED <<connState, token, endpoint, connectedAt, groups, chatDb, notifDb, ops>>

NotifDisconnect(c) ==
    /\ connState[c] = "open"
    /\ endpoint[c] = "notifications"
    /\ pc[c].op = "idle"
    /\ ops < MaxCalls
    /\ ops' = ops + 1
    /\ groups' = group_discard(<<"notifications", ScopeUser(c)>>, c)
    /\ connState' = [connState EXCEPT ![c] = "closed"]
    /\ UNCHANGED <<token, endpoint, connectedAt, pc, sent, chatDb, notifDb>>

-----------------------------------------------------------------------------
(* NotificationConsumer.receive *)

NotifCanReceive(c) ==
    /\ connState[c] = "open"
    /\ endpoint[c] = "notifications"
    /\ pc[c].op = "idle"
    /\ ops < MaxOps

\* A lookup by id alone would find the notifications of every user.
notification_get_any_recipient(notification_id, u) ==
    notification_id \in 1..Len(notifications)

\* Notification.objects.get(id=notification_id, recipient=self.user)
notification_get(notification_id, u) ==
    /\ notification_id \in 1..Len(notifications)
    /\ notifications[notification_id].recipient = u

\* action mark_as_read: mark_notification_as_read; a falsy id is skipped
ReceiveNotifMarkAsRead(c, notification_id) ==
    /\ NotifCanReceive(c)
    /\ ops' = ops + 1
    /\ IF notification_id # 0 /\ notification_get(notification_id, ScopeUser(c))
       THEN /\ notifications' = [notifications EXCEPT ![notification_id].is_read = TRUE]
            /\ pc' = [pc EXCEPT ![c] = At("nm_ack", notification_id, 0, 0, {})]
       ELSE UNCHANGED <<notifications, pc>>
    /\ UNCHANGED <<connState, token, endpoint, connectedAt, groups, sent, chatDb, prefs,
                   deviceTokens, emailed, pushed, wpc>>

NmAck(c) ==
    /\ pc[c].op = "nm_ack"
    /\ sent' = send(c, Frame("notification_marked_as_read", pc[c].m, 0, 0))
    /\ pc' = [pc EXCEPT ![c] = Idle]
    /\ UNCHANGED <<connState, token, endpoint, connectedAt, groups, chatDb, notifDb, ops>>

\* action mark_all_as_read: filter(recipient=self.user, is_read=False).update(is_read=True);
\* the count of updated rows travels in the ack
ReceiveNotifMarkAll(c) ==
    /\ NotifCanReceive(c)
    /\ ops' = ops + 1
    /\ notifications' =
          [n \in 1..Len(notifications) |->
              IF notifications[n].recipient = ScopeUser(c) /\ ~notifications[n].is_read
              THEN [notifications[n] EXCEPT !.is_read = TRUE]
              ELSE notifications[n]]
    /\ pc' = [pc EXCEPT ![c] =
                 At("nma_ack",
                    Cardinality({n \in 1..Len(notifications) :
                                    /\ notifications[n].recipient = ScopeUser(c)
                                    /\ ~notifications[n].is_read}),
                    0, 0, {})]
    /\ UNCHANGED <<connState, token, endpoint, connectedAt, groups, sent, chatDb, prefs,
                   deviceTokens, emailed, pushed, wpc>>

NmaAck(c) ==
    /\ pc[c].op = "nma_ack"
    /\ sent' = send(c, Frame("all_notifications_marked_as_read", pc[c].m, 0, 0))
    /\ pc' = [pc EXCEPT ![c] = Idle]
    /\ UNCHANGED <<connState, token, endpoint, connectedAt, groups, chatDb, notifDb, ops>>

-----------------------------------------------------------------------------
(* NotificationService.send_notification *)

\* A send_notification that skipped User.objects.get would go on for any id.
SnStart_without_lookup(w, recipient_id, notification_type, send_email, send_push) ==
    /\ CanCall(w)
    /\ ops' = ops + 1
    /\ wpc' = [wpc EXCEPT ![w] =
                 WAt(IF HasPref(recipient_id) THEN "sn_create" ELSE "sn_pref",
                     recipient_id, notification_type, send_email, send_push,
                     IF HasPref(recipient_id) THEN PrefOf(recipient_id).flags
                     ELSE DefaultPref,
                     0, "", 0)]
    /\ UNCHANGED <<connState, token, endpoint, connectedAt, groups, pc, sent, chatDb,
                   prefs, notifications, deviceTokens, emailed, pushed>>

\* User.objects.get and the preferences' get_or_create; User.DoesNotExist takes the
\* call to its except clause
SnStart(w, recipient_id, notification_type, send_email, send_push) ==
    /\ CanCall(w)
    /\ ops' = ops + 1
    /\ wpc' = [wpc EXCEPT ![w] =
                 WAt(IF recipient_id \notin Users THEN "sn_missing"
                     ELSE IF HasPref(recipient_id) THEN "sn_create" ELSE "sn_pref",
                     recipient_id, notification_type, send_email, send_push,
                     IF HasPref(recipient_id) THEN PrefOf(recipient_id).flags
                     ELSE DefaultPref,
                     0, "", 0)]
    /\ UNCHANGED <<connState, token, endpoint, connectedAt, groups, pc, sent, chatDb,
                   prefs, notifications, deviceTokens, emailed, pushed>>

\* Without the one-to-one constraint every INSERT of a preference row would go through.
pref_insert_unconstrained(u) == TRUE

\* OneToOneField on NotificationPreference.user: a second row of the user is rejected.
pref_insert_allowed(u) == ~HasPref(u)

\* The row an INSERT with the field defaults adds.
pref_insert(u) ==
    prefs \cup {[id |-> NextId(prefs), user |-> u, flags |-> DefaultPref]}

\* The create of the preferences' get_or_create: the INSERT, or, when the constraint
\* rejects it, the get of the row that is there.
SnPref(w) ==
    /\ wpc[w].op = "sn_pref"
    /\ IF pref_insert_allowed(wpc[w].user)
       THEN /\ prefs' = pref_insert(wpc[w].user)
            /\ wpc' = [wpc EXCEPT ![w].op = "sn_create", ![w].pref = DefaultPref]
       ELSE /\ UNCHANGED prefs
            /\ wpc' = [wpc EXCEPT ![w].op = "sn_create",
                                  ![w].pref = PrefOf(wpc[w].user).flags]
    /\ UNCHANGED <<connState, token, endpoint, connectedAt, groups, pc, sent, chatDb,
                   notifications, deviceTokens, emailed, pushed, ops>>

\* except User.DoesNotExist: return None
SnDoesNotExist(w) ==
    /\ wpc[w].op = "sn_missing"
    /\ wpc' = [wpc EXCEPT ![w] = WIdle]
    /\ UNCHANGED <<connState, token, endpoint, connectedAt, groups, pc, sent, chatDb,
                   prefs, notifications, deviceTokens, emailed, pushed, ops>>

\* A receiver that ignored the created flag would broadcast on every save.
send_notification_to_websocket_on_every_save(created, n, recipient) ==
    group_send(<<"notifications", recipient>>, Frame("notification", n, 0, recipient))

\* The post_save receiver of Notification: a group_send for a created row only.
send_notification_to_websocket(created, n, recipient) ==
    IF created
    THEN group_send(<<"notifications", recipient>>, Frame("notification", n, 0, recipient))
    ELSE sent

\* The should_send test, Notification.objects.create and its post_save signal
\* (created = True; a group_send that raises is dropped by the receiver).
SnCreate(w) ==
    /\ wpc[w].op = "sn_create"
    /\ IF should_send(wpc[w].pref, wpc[w].ntype)
       THEN /\ notifications' = Append(notifications,
                  [recipient |-> wpc[w].user, notification_type |-> wpc[w].ntype,
                   is_read |-> FALSE, is_email_sent |-> FALSE, is_push_sent |-> FALSE])
            /\ \/ sent' = send_notification_to_websocket(TRUE, Len(notifications) + 1,
                                                         wpc[w].user)
               \/ UNCHANGED sent
            /\ wpc' = [wpc EXCEPT ![w].op = "sn_email", ![w].n = Len(notifications) + 1]
       ELSE /\ wpc' = [wpc EXCEPT ![w] = WIdle]
            /\ UNCHANGED <<notifications, sent>>
    /\ UNCHANGED <<connState, token, endpoint, connectedAt, groups, pc, chatDb, prefs,
                   deviceTokens, emailed, pushed, ops>>

\* A send_email_notification without its try/except: a failed send_mail ends the call.
SnEmail_raising(w) ==
    /\ wpc[w].op = "sn_email"
    /\ IF wpc[w].send_email /\ wpc[w].pref["receive_email"]
       THEN /\ emailed' = emailed \cup {wpc[w].n}
            /\ \/ /\ notifications' =
                       [notifications EXCEPT ![wpc[w].n].is_email_sent = TRUE]
                  /\ sent' = send_notification_to_websocket(FALSE, wpc[w].n, wpc[w].user)
                  /\ wpc' = [wpc EXCEPT ![w].op = "sn_push"]
               \/ /\ UNCHANGED <<notifications, sent>>
                  /\ wpc' = [wpc EXCEPT ![w] = WIdle]
       ELSE /\ UNCHANGED <<emailed, notifications, sent>>
            /\ wpc' = [wpc EXCEPT ![w].op = "sn_push"]
    /\ UNCHANGED <<connState, token, endpoint, connectedAt, groups, pc, chatDb,
                   prefs, deviceTokens, pushed, ops>>

\* send_email_notification: send_mail is called; it returns 1 and the flag is saved
\* (post_save, created = False), or it raises (swallowed)
SnEmail(w) ==
    /\ wpc[w].op = "sn_email"
    /\ IF wpc[w].send_email /\ wpc[w].pref["receive_email"]
       THEN /\ emailed' = emailed \cup {wpc[w].n}
            /\ \/ /\ notifications' =
                       [notifications EXCEPT ![wpc[w].n].is_email_sent = TRUE]
                  /\ sent' = send_notification_to_websocket(FALSE, wpc[w].n, wpc[w].user)
               \/ UNCHANGED <<notifications, sent>>
       ELSE UNCHANGED <<emailed, notifications, sent>>
    /\ wpc' = [wpc EXCEPT ![w].op = "sn_push"]
    /\ UNCHANGED <<connState, token, endpoint, connectedAt, groups, pc, chatDb,
                   prefs, deviceTokens, pushed, ops>>

\* send_push_notification: nothing to do without an active token of the recipient
SnPush(w) ==
    /\ wpc[w].op = "sn_push"
    /\ IF wpc[w].send_push /\ wpc[w].pref["receive_push"] /\ ActiveTokens(wpc[w].user) # {}
       THEN /\ pushed' = pushed \cup {wpc[w].n}
            /\ notifications' = [notifications EXCEPT ![wpc[w].n].is_push_sent = TRUE]
            /\ sent' = send_notification_to_websocket(FALSE, wpc[w].n, wpc[w].user)
       ELSE UNCHANGED <<pushed, notifications, sent>>
    /\ wpc' = [wpc EXCEPT ![w] = WIdle]
    /\ UNCHANGED <<connState, token, endpoint, connectedAt, groups, pc, chatDb,
                   prefs, deviceTokens, emailed, ops>>

\* NotificationPreferenceViewSet: get_object, then the serializer's update
UpdatePreference(u, field, value) ==
    /\ ops < MaxCalls
    /\ ops' = ops + 1
    /\ prefs' = {IF r.user = u THEN [r EXCEPT !.flags[field] = value] ELSE r :
                    r \in prefs_get_or_create(u)}
    /\ UNCHANGED <<connState, token, endpoint, connectedAt, groups, pc, sent, chatDb,
                   notifications, deviceTokens, emailed, pushed, wpc>>

-----------------------------------------------------------------------------
(* The other writers of NotificationPreference rows *)

\* create_notification_preferences, the post_save receiver of a created user: a plain
\* create; when the row is already there the IntegrityError ends the request.
UcSignal(w) ==
    /\ wpc[w].op = "uc_signal"
    /\ IF pref_insert_allowed(wpc[w].user)
       THEN prefs' = pref_insert(wpc[w].user)
       ELSE UNCHANGED prefs
    /\ wpc' = [wpc EXCEPT ![w] = WIdle]
    /\ UNCHANGED <<connState, token, endpoint, connectedAt, groups, pc, sent, chatDb,
                   notifications, deviceTokens, emailed, pushed, ops>>

\* NotificationPreferenceViewSet.get_object: the get of get_or_create(user=request.user)
PvStart(w, u) ==
    /\ CanCall(w)
    /\ ops' = ops + 1
    /\ wpc' = [wpc EXCEPT ![w] =
                 WAt(IF HasPref(u) THEN "pv_return" ELSE "pv_create",
                     u, "", FALSE, FALSE, DefaultPref, 0, "", 0)]
    /\ UNCHANGED <<connState, token, endpoint, connectedAt, groups, pc, sent, chatDb,
                   prefs, notifications, deviceTokens, emailed, pushed>>

\* ... its create, or the get after the constraint rejected the INSERT
PvCreate(w) ==
    /\ wpc[w].op = "pv_create"
    /\ IF pref_insert_allowed(wpc[w].user)
       THEN prefs' = pref_insert(wpc[w].user)
       ELSE UNCHANGED prefs
    /\ wpc' = [wpc EXCEPT ![w].op = "pv_return"]
    /\ UNCHANGED <<connState, token, endpoint, connectedAt, groups, pc, sent, chatDb,
                   notifications, deviceTokens, emailed, pushed, ops>>

\* the row is serialized into the response
PvReturn(w) ==
    /\ wpc[w].op = "pv_return"
    /\ wpc' = [wpc EXCEPT ![w] = WIdle]
    /\ UNCHANGED <<connState, token, endpoint, connectedAt, groups, pc, sent, chatDb,
                   prefs, notifications, deviceTokens, emailed, pushed, ops>>

\* update / partial_update: the serializer writes the field on the row of get_object
PvUpdate(w, field, value) ==
    /\ wpc[w].op = "pv_return"
    /\ prefs' = {IF r.user = wpc[w].user THEN [r EXCEPT !.flags[field] = value] ELSE r :
                    r \in prefs}
    /\ wpc' = [wpc EXCEPT ![w] = WIdle]
    /\ UNCHANGED <<connState, token, endpoint, connectedAt, groups, pc, sent, chatDb,
                   notifications, deviceTokens, emailed, pushed, ops>>

-----------------------------------------------------------------------------
(* NotificationService.register_device / unregister_device *)

\* User.objects.get, and the get of get_or_create(token=token)
RdStart(w, user_id, t) ==
    /\ CanCall(w)
    /\ ops' = ops + 1
    /\ IF user_id \in Users
       THEN IF TokenRows(t) # {}
            THEN wpc' = [wpc EXCEPT ![w] =
                    WAt("rd_save", user_id, "", FALSE, FALSE, DefaultPref, 0, t,
                        (CHOOSE r \in TokenRows(t) : TRUE).id)]
            ELSE wpc' = [wpc EXCEPT ![w] =
                    WAt("rd_create", user_id, "", FALSE, FALSE, DefaultPref, 0, t, 0)]
       ELSE UNCHANGED wpc
    /\ UNCHANGED <<connState, token, endpoint, connectedAt, groups, pc, sent, chatDb,
                   prefs, notifications, deviceTokens, emailed, pushed>>

\* The create of get_or_create: the INSERT, or, when the unique constraint rejects
\* it, the get of the row that is there.
RdCreate(w) ==
    /\ wpc[w].op = "rd_create"
    /\ IF token_insert_allowed(wpc[w].tok)
       THEN /\ deviceTokens' = deviceTokens \cup
                   {[id |-> NextId(deviceTokens), token |-> wpc[w].tok,
                     user |-> wpc[w].user, is_active |-> TRUE]}
            /\ wpc' = [wpc EXCEPT ![w] = WIdle]
       ELSE /\ wpc' = [wpc EXCEPT ![w].op = "rd_save",
                                  ![w].row = (CHOOSE r \in TokenRows(wpc[w].tok) : TRUE).id]
            /\ UNCHANGED deviceTokens
    /\ UNCHANGED <<connState, token, endpoint, connectedAt, groups, pc, sent, chatDb,
                   prefs, notifications, emailed, pushed, ops>>

\* A save that left is_active as it found it would not reactivate a token.
RdSave_keeping_flag(w) ==
    /\ wpc[w].op = "rd_save"
    /\ deviceTokens' = {IF r.id = wpc[w].row
                        THEN [r EXCEPT !.user = wpc[w].user]
                        ELSE r : r \in deviceTokens}
    /\ wpc' = [wpc EXCEPT ![w] = WIdle]
    /\ UNCHANGED <<connState, token, endpoint, connectedAt, groups, pc, sent, chatDb,
                   prefs, notifications, emailed, pushed, ops>>

\* not created: the row gets the caller as its user, is_active = True, and is saved
RdSave(w) ==
    /\ wpc[w].op = "rd_save"
    /\ deviceTokens' = {IF r.id = wpc[w].row
                        THEN [r EXCEPT !.user = wpc[w].user, !.is_active = TRUE]
                        ELSE r : r \in deviceTokens}
    /\ wpc' = [wpc EXCEPT ![w] = WIdle]
    /\ UNCHANGED <<connState, token, endpoint, connectedAt, groups, pc, sent, chatDb,
                   prefs, notifications, emailed, pushed, ops>>

UnregisterDevice(t) ==
    /\ ops < MaxCalls
    /\ ops' = ops + 1
    /\ deviceTokens' = {IF r.token = t THEN [r EXCEPT !.is_active = FALSE] ELSE r :
                           r \in deviceTokens}
    /\ UNCHANGED <<connState, token, endpoint, connectedAt, groups, pc, sent, chatDb,
                   prefs, notifications, emailed, pushed, wpc>>

-----------------------------------------------------------------------------
(* UnregisterDeviceView and unregister_device, on the request threads *)

\* The device tokens the unregistration requests name ("U" is never registered).
RequestTokens == PushTokens \cup {"U"}

\* UnregisterDeviceView.post: the serializer's validate_token looks the token up;
\* ValidationError answers 400, otherwise the service is called with the token alone.
UdStart(w, u, t) ==
    /\ CanCall(w)
    /\ ops' = ops + 1
    /\ wpc' = [wpc EXCEPT ![w] =
                 WAt(IF TokenRows(t) # {} THEN "un_call" ELSE "ud_invalid",
                     u, "", FALSE, FALSE, DefaultPref, 0, t, 0)]
    /\ UNCHANGED <<connState, token, endpoint, connectedAt, groups, pc, sent, chatDb,
                   prefs, notifications, deviceTokens, emailed, pushed>>

UdInvalid(w) ==
    /\ wpc[w].op = "ud_invalid"
    /\ wpc' = [wpc EXCEPT ![w] = WIdle]
    /\ UNCHANGED <<connState, token, endpoint, connectedAt, groups, pc, sent, chatDb,
                   prefs, notifications, deviceTokens, emailed, pushed, ops>>

\* unregister_device(token) called by the service's own clients
UnStart(w, t) ==
    /\ CanCall(w)
    /\ ops' = ops + 1
    /\ wpc' = [wpc EXCEPT ![w] =
                 WAt("un_call", NoUser, "", FALSE, FALSE, DefaultPref, 0, t, 0)]
    /\ UNCHANGED <<connState, token, endpoint, connectedAt, groups, pc, sent, chatDb,
                   prefs, notifications, deviceTokens, emailed, pushed>>

\* unregister_device: the get by token, then is_active = False saved and True
\* returned; DoesNotExist returns False
UnCall(w) ==
    /\ wpc[w].op = "un_call"
    /\ IF TokenRows(wpc[w].tok) # {}
       THEN /\ deviceTokens' = {IF r.token = wpc[w].tok THEN [r EXCEPT !.is_active = FALSE]
                                ELSE r : r \in deviceTokens}
            /\ wpc' = [wpc EXCEPT ![w].op = "un_true"]
       ELSE /\ UNCHANGED deviceTokens
            /\ wpc' = [wpc EXCEPT ![w].op = "un_false"]
    /\ UNCHANGED <<connState, token, endpoint, connectedAt, groups, pc, sent, chatDb,
                   prefs, notifications, emailed, pushed, ops>>

\* the caller has the result: 200 for True, 400 for False
UnReturn(w) ==
    /\ wpc[w].op \in {"un_true", "un_false"}
    /\ wpc' = [wpc EXCEPT ![w] = WIdle]
    /\ UNCHANGED <<connState, token, endpoint, connectedAt, groups, pc, sent, chatDb,
                   prefs, notifications, deviceTokens, emailed, pushed, ops>>

-----------------------------------------------------------------------------
(* The HTTP views of messaging: requests run on the request threads *)

\* The locals of a messaging request: the user, the conversation, the message and
\* the clock value the save has read.
HAt(op, u, k, m, t) ==
    [WAt(op, u, "", FALSE, FALSE, DefaultPref, m, "", k) EXCEPT !.clock = t]

\* ConversationViewSet.get_queryset: the caller's active conversations
conversation_queryset(u) ==
    {k \in DOMAIN conversations : u \in conversations[k].participants /\ conversations[k].is_active}

\* ConversationViewSet.deactivate: get_object on the queryset (404 otherwise), then a
\* save of the row; auto_now stamps updated_at with the clock.
ConversationDeactivate(w, u, k) ==
    /\ CanCall(w)
    /\ ops' = ops + 1
    /\ IF k \in conversation_queryset(u)
       THEN /\ now' = now + 1
            /\ conversations' = [conversations EXCEPT ![k].is_active = FALSE,
                                                      ![k].updated_at = now']
       ELSE UNCHANGED <<now, conversations>>
    /\ UNCHANGED <<connState, token, endpoint, connectedAt, groups, pc, sent, messages,
                   receipts, notifDb>>

\* CreateMessageSerializer.validate_conversation
validate_conversation(u, k) ==
    /\ k \in DOMAIN conversations
    /\ u \in conversations[k].participants
    /\ conversations[k].is_active

\* MessageViewSet.create: the validation and serializer.save(sender = user)
HcStart(w, u, k, content, message_type) ==
    /\ CanCall(w)
    /\ ops' = ops + 1
    /\ IF validate_conversation(u, k)
       THEN /\ messages' = Append(messages,
                  [conversation |-> k, sender |-> u, content |-> content,
                   message_type |-> message_type, is_read |-> FALSE])
            /\ wpc' = [wpc EXCEPT ![w] = HAt("hc_clock", u, k, Len(messages) + 1, 0)]
       ELSE UNCHANGED <<messages, wpc>>
    /\ UNCHANGED <<connState, token, endpoint, connectedAt, groups, pc, sent, conversations,
                   receipts, now, prefs, notifications, deviceTokens, emailed, pushed>>

\* conversation.save(): pre_save of the auto_now field reads the clock ...
HcClock(w) ==
    /\ wpc[w].op = "hc_clock"
    /\ now' = now + 1
    /\ wpc' = [wpc EXCEPT ![w].op = "hc_save", ![w].clock = now']
    /\ UNCHANGED <<connState, token, endpoint, connectedAt, groups, pc, sent, conversations,
                   messages, receipts, prefs, notifications, deviceTokens, emailed, pushed,
                   ops>>

\* ... and the UPDATE writes the row the serializer validated (is_active was True)
HcSave(w) ==
    /\ wpc[w].op = "hc_save"
    /\ conversations' = [conversations EXCEPT ![wpc[w].row].updated_at = wpc[w].clock,
                                              ![wpc[w].row].is_active = TRUE]
    /\ wpc' = [wpc EXCEPT ![w].op = "hc_mark"]
    /\ UNCHANGED <<connState, token, endpoint, connectedAt, groups, pc, sent, messages,
                   receipts, now, prefs, notifications, deviceTokens, emailed, pushed, ops>>

\* mark_previous_messages_as_read: one UPDATE over the unread messages of the others
mark_previous_messages_as_read(u, k) ==
    [m \in 1..Len(messages) |->
        IF messages[m].conversation = k /\ messages[m].sender # u /\ ~messages[m].is_read
        THEN [messages[m] EXCEPT !.is_read = TRUE]
        ELSE messages[m]]

HcMark(w) ==
    /\ wpc[w].op = "hc_mark"
    /\ messages' = mark_previous_messages_as_read(wpc[w].user, wpc[w].row)
    /\ wpc' = [wpc EXCEPT ![w] = WIdle]
    /\ UNCHANGED <<connState, token, endpoint, connectedAt, groups, pc, sent, conversations,
                   receipts, now, prefs, notifications, deviceTokens, emailed, pushed, ops>>

\* MessageViewSet.get_queryset: the messages of the caller's conversations
message_queryset(u) ==
    {m \in 1..Len(messages) : u \in conversations[messages[m].conversation].participants}

\* MessageViewSet.mark_as_read: get_object (404 otherwise); for a message of another
\* user the flag is saved, then get_or_create(defaults READ) leaves an existing row alone.
HmStart(w, u, m) ==
    /\ CanCall(w)
    /\ ops' = ops + 1
    /\ IF m \in message_queryset(u) /\ messages[m].sender # u
       THEN /\ messages' = [messages EXCEPT ![m].is_read = TRUE]
            /\ wpc' = [wpc EXCEPT ![w] = HAt("hm_receipt", u, messages[m].conversation, m, 0)]
       ELSE UNCHANGED <<messages, wpc>>
    /\ UNCHANGED <<connState, token, endpoint, connectedAt, groups, pc, sent, conversations,
                   receipts, now, prefs, notifications, deviceTokens, emailed, pushed>>

receipt_get_or_create(m, r, status) ==
    IF receipts[<<m, r>>] = NoReceipt
    THEN [receipts EXCEPT ![<<m, r>>] = status]
    ELSE receipts

HmReceipt(w) ==
    /\ wpc[w].op = "hm_receipt"
    /\ receipts' = receipt_get_or_create(wpc[w].n, wpc[w].user, "READ")
    /\ wpc' = [wpc EXCEPT ![w] = WIdle]
    /\ UNCHANGED <<connState, token, endpoint, connectedAt, groups, pc, sent, conversations,
                   messages, now, prefs, notifications, deviceTokens, emailed, pushed, ops>>

\* What a PUT or PATCH of a message may carry.
EditedContents == {"edited"}
EditedTypes == {"TEXT", "IMAGE"}

\* MessageViewSet.update / partial_update (ModelViewSet): get_object on the queryset,
\* then MessageSerializer, whose read-only fields are id, sender, is_read and
\* created_at, writes content and message_type.
MessageUpdate(w, u, m, content, message_type) ==
    /\ CanCall(w)
    /\ ops' = ops + 1
    /\ IF m \in message_queryset(u)
       THEN messages' = [messages EXCEPT ![m].content = content,
                                         ![m].message_type = message_type]
       ELSE UNCHANGED messages
    /\ UNCHANGED <<connState, token, endpoint, connectedAt, groups, pc, sent, conversations,
                   receipts, now, notifDb>>

\* CreateConversationView.create / get_conversation_with_user: the conversations that
\* pass filter(participants=user).filter(participants=other_user_id)
existing_conversation(u, other) ==
    {k \in DOMAIN conversations :
        u \in conversations[k].participants /\ other \in conversations[k].participants}

\* The check for an existing conversation; the request remembers the other user's id.
CvStart(w, u, other) ==
    /\ CanCall(w)
    /\ ops' = ops + 1
    /\ wpc' = [wpc EXCEPT ![w] =
                 IF existing_conversation(u, other) # {}
                 THEN HAt("cv_found", u,
                          CHOOSE k \in existing_conversation(u, other) :
                             \A j \in existing_conversation(u, other) :
                                conversations[j].updated_at <= conversations[k].updated_at,
                          other, 0)
                 ELSE HAt("cv_create", u, 0, other, 0)]
    /\ UNCHANGED <<connState, token, endpoint, connectedAt, groups, pc, sent, chatDb,
                   prefs, notifications, deviceTokens, emailed, pushed>>

\* the existing conversation is serialized into the 200 response
CvFound(w) ==
    /\ wpc[w].op = "cv_found"
    /\ wpc' = [wpc EXCEPT ![w] = WIdle]
    /\ UNCHANGED <<connState, token, endpoint, connectedAt, groups, pc, sent, chatDb,
                   prefs, notifications, deviceTokens, emailed, pushed, ops>>

\* Conversation.objects.create()
CvCreate(w) ==
    /\ wpc[w].op = "cv_create"
    /\ now' = now + 1
    /\ LET id == Cardinality(DOMAIN conversations) + 1
       IN /\ conversations' = conversations @@
                (id :> [participants |-> {}, is_active |-> TRUE, updated_at |-> now'])
          /\ wpc' = [wpc EXCEPT ![w].op = "cv_add", ![w].row = id]
    /\ UNCHANGED <<connState, token, endpoint, connectedAt, groups, pc, sent, messages,
                   receipts, prefs, notifications, deviceTokens, emailed, pushed, ops>>

\* conversation.participants.add(user.id, other_user_id): the rows of a many-to-many
\* relation form a set
CvAdd(w) ==
    /\ wpc[w].op = "cv_add"
    /\ conversations' = [conversations EXCEPT ![wpc[w].row].participants =
                            @ \cup {wpc[w].user, wpc[w].n}]
    /\ wpc' = [wpc EXCEPT ![w] = WIdle]
    /\ UNCHANGED <<connState, token, endpoint, connectedAt, groups, pc, sent, messages,
                   receipts, now, prefs, notifications, deviceTokens, emailed, pushed, ops>>

-----------------------------------------------------------------------------
(* The chat specification *)

Init ==
    /\ connState = [c \in Conns |-> "new"]
    /\ token = [c \in Conns |-> NoToken]
    /\ endpoint = [c \in Conns |-> None]
    /\ groups = [g \in GroupNames |-> {}]
    /\ pc = [c \in Conns |-> Idle]
    /\ sent = [c \in Conns |-> <<>>]
    /\ conversations = [k \in {1} |-> [participants |-> {1, 2}, is_active |-> TRUE,
                                       updated_at |-> 0]]
    /\ messages = <<>>
    /\ receipts = [x \in MsgIds \X Users |-> NoReceipt]
    /\ now = 0
    /\ connectedAt = [c \in Conns |-> 0]
    /\ prefs = {[id |-> u, user |-> u, flags |-> DefaultPref] : u \in Users}
    /\ notifications = <<>>
    /\ deviceTokens = {}
    /\ emailed = {}
    /\ pushed = {}
    /\ wpc = [w \in Workers |-> WIdle]
    /\ ops = 0

\* The handshakes of the chat specification: one that is refused, and every user's.
ChatTokens == {t \in Tokens : t.kind = "missing" \/ (t.kind = "valid" /\ t.user_id \in Users)}

Next ==
    \/ \E c \in Conns, t \in ChatTokens : ChatConnect(c, t)
    \/ \E c \in Conns : ChatDisconnect(c)
    \/ \E c \in Conns, k \in ConvIds, content \in Contents, mt \in MessageTypes :
          ReceiveSendMessage(c, k, content, mt)
    \/ \E c \in Conns : SmFetch(c)
    \/ \E c \in Conns : SmReceipt(c)
    \/ \E c \in Conns : SmChat(c)
    \/ \E c \in Conns : SmUpdate(c)
    \/ \E c \in Conns, m \in MsgIds : ReceiveMarkAsRead(c, m)
    \/ \E c \in Conns : MarReceipt(c)
    \/ \E c \in Conns : MarNotify(c)
    \/ \E c \in Conns, k \in ConvIds : ReceiveJoin(c, k)
    \/ \E c \in Conns : JoinQuery(c)
    \/ \E c \in Conns : JoinUpsert(c)
    \/ \E c \in Conns : JoinAck(c)
    \/ \E c \in Conns, k \in ConvIds : ReceiveLeave(c, k)
    \/ \E c \in Conns, k \in ConvIds : ReceiveTyping(c, k)
    \/ \E c \in Conns : TypingSend(c)
    \/ \E c \in Conns : ReceiveMalformed(c)

Spec == Init /\ [][Next]_vars

-----------------------------------------------------------------------------
(* The notification specification *)

NextNotif ==
    \/ \E c \in 1..2,
          t \in {x \in Tokens : x.kind = "missing" \/ (x.kind = "valid" /\ x.user_id \in 1..2)} :
          NotifConnect(c, t)
    \/ \E c \in 1..2 : NotifUnread(c)
    \/ \E c \in 1..2 : NotifDisconnect(c)
    \/ \E w \in Workers, u \in {1, 4}, nt \in SentTypes, se \in BOOLEAN :
          SnStart(w, u, nt, se, TRUE)
    \/ \E w \in Workers : SnDoesNotExist(w)
    \/ \E w \in Workers : SnCreate(w)
    \/ \E w \in Workers : SnEmail(w)
    \/ \E w \in Workers : SnPush(w)
    \/ \E u \in {1}, f \in EditedFields, v \in BOOLEAN : UpdatePreference(u, f, v)

SpecNotif == Init /\ [][NextNotif]_vars

-----------------------------------------------------------------------------
(* The device-token specification: registrations, and pushes that use the tokens *)

NextDevices ==
    \/ \E w \in Workers, u \in CallerIds, t \in PushTokens : RdStart(w, u, t)
    \/ \E w \in Workers : RdCreate(w)
    \/ \E w \in Workers : RdSave(w)
    \/ \E t \in PushTokens : UnregisterDevice(t)
    \/ \E w \in Workers, u \in CallerIds \cap Users, sp \in BOOLEAN :
          SnStart(w, u, "SYSTEM", FALSE, sp)
    \/ \E u \in {1}, v \in BOOLEAN : UpdatePreference(u, "receive_push", v)
    \/ \E w \in Workers : SnCreate(w)
    \/ \E w \in Workers : SnEmail(w)
    \/ \E w \in Workers : SnPush(w)

SpecDevices == Init /\ [][NextDevices]_vars

-----------------------------------------------------------------------------
(* The inbox specification: notification connections that mark what they received *)

NextInbox ==
    \/ \E c \in 1..2, t \in {x \in Tokens : x.kind = "valid" /\ x.user_id \in 1..2} :
          NotifConnect(c, t)
    \/ \E c \in 1..2 : NotifUnread(c)
    \/ \E w \in Workers, u \in 1..2 : SnStart(w, u, "SYSTEM", TRUE, FALSE)
    \/ \E w \in Workers : SnCreate(w)
    \/ \E w \in Workers : SnEmail(w)
    \/ \E w \in Workers : SnPush(w)
    \/ \E c \in 1..2, n \in 0..2 : ReceiveNotifMarkAsRead(c, n)
    \/ \E c \in 1..2 : NmAck(c)
    \/ \E c \in 1..2 : ReceiveNotifMarkAll(c)
    \/ \E c \in 1..2 : NmaAck(c)

SpecInbox == Init /\ [][NextInbox]_vars

-----------------------------------------------------------------------------
(* The token specification: registrations and unregistrations of device tokens *)

NextTokens ==
    \/ \E w \in Workers, u \in 1..2, t \in PushTokens : RdStart(w, u, t)
    \/ \E w \in Workers : RdCreate(w)
    \/ \E w \in Workers : RdSave(w)
    \/ \E w \in Workers, u \in 1..2, t \in RequestTokens : UdStart(w, u, t)
    \/ \E w \in Workers : UdInvalid(w)
    \/ \E w \in Workers, t \in RequestTokens : UnStart(w, t)
    \/ \E w \in Workers : UnCall(w)
    \/ \E w \in Workers : UnReturn(w)

SpecTokens == Init /\ [][NextTokens]_vars

-----------------------------------------------------------------------------
(* The preference specification: user 3 has no preference row yet, because its
   account predates the receiver or because the request that created it, on thread
   2, has saved the user and not yet run the receiver *)

InitPrefs ==
    /\ connState = [c \in Conns |-> "new"]
    /\ token = [c \in Conns |-> NoToken]
    /\ endpoint = [c \in Conns |-> None]
    /\ groups = [g \in GroupNames |-> {}]
    /\ pc = [c \in Conns |-> Idle]
    /\ sent = [c \in Conns |-> <<>>]
    /\ conversations = [k \in {1} |-> [participants |-> {1, 2}, is_active |-> TRUE,
                                       updated_at |-> 0]]
    /\ messages = <<>>
    /\ receipts = [x \in MsgIds \X Users |-> NoReceipt]
    /\ now = 0
    /\ connectedAt = [c \in Conns |-> 0]
    /\ prefs = {[id |-> u, user |-> u, flags |-> DefaultPref] : u \in 1..2}
    /\ notifications = <<>>
    /\ deviceTokens = {}
    /\ emailed = {}
    /\ pushed = {}
    /\ wpc \in {[w \in Workers |-> WIdle],
                [w \in Workers |->
                    IF w = 2
                    THEN WAt("uc_signal", 3, "", FALSE, FALSE, DefaultPref, 0, "", 0)
                    ELSE WIdle]}
    /\ ops = 0

NextPrefs ==
    \/ \E w \in Workers : UcSignal(w)
    \/ \E w \in Workers, nt \in SentTypes : SnStart(w, 3, nt, FALSE, FALSE)
    \/ \E w \in Workers : SnPref(w)
    \/ \E w \in Workers : SnCreate(w)
    \/ \E w \in Workers : SnEmail(w)
    \/ \E w \in Workers : SnPush(w)
    \/ \E w \in Workers : PvStart(w, 3)
    \/ \E w \in Workers : PvCreate(w)
    \/ \E w \in Workers : PvReturn(w)
    \/ \E w \in Workers, v \in BOOLEAN : PvUpdate(w, "likes", v)

SpecPrefs == InitPrefs /\ [][NextPrefs]_vars

-----------------------------------------------------------------------------
(* The REST specification of messaging: messages are posted, edited and marked, and
   conversations are looked up or created, all over HTTP *)

NextRest ==
    \/ \E w \in Workers, u \in 1..2, content \in Contents, mt \in MessageTypes :
          HcStart(w, u, 1, content, mt)
    \/ \E w \in Workers : HcClock(w)
    \/ \E w \in Workers : HcSave(w)
    \/ \E w \in Workers : HcMark(w)
    \/ \E w \in Workers, u \in 1..2, m \in 1..2 : HmStart(w, u, m)
    \/ \E w \in Workers : HmReceipt(w)
    \/ \E w \in Workers, u \in Users, m \in 1..2, content \in EditedContents,
          mt \in EditedTypes : MessageUpdate(w, u, m, content, mt)
    \/ \E w \in Workers, u \in {1, 3}, other \in {1, 3} : CvStart(w, u, other)
    \/ \E w \in Workers : CvFound(w)
    \/ \E w \in Workers : CvCreate(w)
    \/ \E w \in Workers : CvAdd(w)

SpecRest == Init /\ [][NextRest]_vars

-----------------------------------------------------------------------------
(* The messaging specification: the chat consumer next to the HTTP views *)

NextHttp ==
    \/ \E c \in 1..2, t \in {x \in ChatTokens : x.user_id \in {1, 2}} : ChatConnect(c, t)
    \/ \E c \in Conns, content \in Contents, mt \in MessageTypes :
          ReceiveSendMessage(c, 1, content, mt)
    \/ \E c \in Conns : SmFetch(c)
    \/ \E c \in Conns : SmReceipt(c)
    \/ \E c \in Conns : SmChat(c)
    \/ \E c \in Conns : SmUpdate(c)
    \/ \E c \in Conns, m \in MsgIds : ReceiveMarkAsRead(c, m)
    \/ \E c \in Conns : MarReceipt(c)
    \/ \E c \in Conns : MarNotify(c)
    \/ \E w \in Workers, u \in {1, 3}, k \in ConvIds : ConversationDeactivate(w, u, k)
    \/ \E w \in Workers, u \in Users, k \in ConvIds, content \in Contents,
          mt \in MessageTypes : HcStart(w, u, k, content, mt)
    \/ \E w \in Workers : HcClock(w)
    \/ \E w \in Workers : HcSave(w)
    \/ \E w \in Workers : HcMark(w)
    \/ \E w \in Workers, u \in Users, m \in MsgIds : HmStart(w, u, m)
    \/ \E w \in Workers : HmReceipt(w)

SpecHttp == Init /\ [][NextHttp]_vars

-----------------------------------------------------------------------------
(* The chat specification with failing infrastructure: the awaits of the      *)
(* send_message, mark_as_read and typing handlers may raise                   *)

\* Bound: handshakes and inbound frames of the specification with failures.
MaxFaultOps == 3

NextFaults ==
    \/ \E c \in 1..2, t \in {x \in ChatTokens : x.user_id \in {1, 2}} :
          ops < MaxFaultOps /\ ChatConnect(c, t)
    \/ \E c \in 1..2, content \in Contents, mt \in MessageTypes :
          ops < MaxFaultOps /\ ReceiveSendMessage(c, 1, content, mt)
    \/ \E c \in 1..2 : ops < MaxFaultOps /\ ReceiveMarkAsRead(c, 1)
    \/ \E c \in 1..2 : ops < MaxFaultOps /\ ReceiveTyping(c, 1)
    \/ \E c \in 1..2 : ops < MaxFaultOps /\ ReceiveMalformed(c)
    \/ \E c \in 1..2 : SmFetch(c)
    \/ \E c \in 1..2 : SmReceipt(c)
    \/ \E c \in 1..2 : SmChat(c)
    \/ \E c \in 1..2 : SmUpdate(c)
    \/ \E c \in 1..2 : MarReceipt(c)
    \/ \E c \in 1..2 : MarNotify(c)
    \/ \E c \in 1..2 : TypingSend(c)
    \/ \E c \in 1..2 : Raise(c)

SpecFaults == Init /\ [][NextFaults]_vars

-----------------------------------------------------------------------------
(* The handshake specification: both endpoints, and the broadcasts of the *)
(* authenticated users that an unauthenticated connection could pick up   *)

\* Every way to fail the handshake, and the tokens of the two participants.
GateTokens == {t \in Tokens : t.kind # "valid" \/ t.user_id \in {1, 2, 4}}

NextGate ==
    \/ \E c \in Conns, t \in GateTokens : ChatConnect(c, t)
    \/ \E c \in Conns : ChatDisconnect(c)
    \/ \E c \in Conns, t \in GateTokens : NotifConnect(c, t)
    \/ \E c \in Conns : NotifUnread(c)
    \/ \E c \in Conns : NotifDisconnect(c)
    \/ \E c \in Conns, content \in Contents, mt \in MessageTypes :
          ReceiveSendMessage(c, 1, content, mt)
    \/ \E c \in Conns : SmFetch(c)
    \/ \E c \in Conns : SmReceipt(c)
    \/ \E c \in Conns : SmChat(c)
    \/ \E c \in Conns : SmUpdate(c)
    \/ \E c \in Conns : ReceiveMalformed(c)
    \/ \E w \in Workers, u \in {1} : SnStart(w, u, "SYSTEM", FALSE, FALSE)
    \/ \E w \in Workers : SnCreate(w)
    \/ \E w \in Workers : SnEmail(w)
    \/ \E w \in Workers : SnPush(w)

SpecGate == Init /\ [][NextGate]_vars

-----------------------------------------------------------------------------
(* Fairness *)

\* The steps the event loop takes on its own: a handler that has started runs on.
HandlerStep ==
    \E c \in Conns :
        \/ SmFetch(c) \/ SmReceipt(c) \/ SmChat(c) \/ SmUpdate(c)
        \/ MarReceipt(c) \/ MarNotify(c)
        \/ JoinQuery(c) \/ JoinUpsert(c) \/ JoinAck(c)
        \/ TypingSend(c)

\* Clients owe the server nothing; the event loop does not starve a started handler.
SpecLive == Init /\ [][Next]_vars /\ WF_vars(HandlerStep)

-----------------------------------------------------------------------------
(* Vocabulary of the properties *)

Participants(m) == conversations[messages[m].conversation].participants

\* Positions of the frames of a type about message m in what connection c was sent.
Frames(c, type, m) ==
    {i \in 1..Len(sent[c]) : sent[c][i].type = type /\ sent[c][i].message = m}

\* No send_message handler is still fanning message m out.
FanOutDone(m) ==
    \A c \in Conns :
        ~(pc[c].m = m /\ pc[c].op \in {"sm_fetch", "sm_receipt", "sm_chat", "sm_update"})

\* Connection c was accepted before message m was created and is still open.
LiveSince(c, m) ==
    /\ connState[c] = "open"
    /\ endpoint[c] = "chat"
    /\ connectedAt[c] < m

\* The handler position a step of connection c belongs to.
Acting(c) == IF pc[c].op = "idle" THEN pc'[c] ELSE pc[c]

Stepped(c) == pc'[c] # pc[c]

\* The token carries a valid signature, has not expired and names a user that exists.
Authentic(t) == t.kind = "valid" /\ t.user_id \in Users

\* The preference field the notification settings show for each type.
Category(t) ==
    CASE t = "MATCH" -> "matches"
      [] t = "MESSAGE" -> "messages"
      [] t = "LIKE" -> "likes"
      [] t = "EVENT" -> "events"
      [] t = "SUBSCRIPTION" -> "subscription"
      [] t = "SYSTEM" -> "system"

-----------------------------------------------------------------------------
(* Properties *)

\* C1: a connection whose handshake presented no token, a malformed or expired one,
\* or one naming an unknown user is refused on either endpoint: it is a member of no
\* user, notification or conversation group, no frame is ever written to it and no
\* handler ever runs for it.
C1_UnauthenticatedIsolated ==
    \A c \in Conns :
        (connState[c] # "new" /\ ~Authentic(token[c]))
        => /\ connState[c] = "refused"
           /\ \A g \in GroupNames : c \notin groups[g]
           /\ sent[c] = <<>>
           /\ pc[c] = Idle

\* C1 witness: a handshake with user 1's expired token was refused, and a live
\* connection of user 1 has been sent a frame since.
C1_Witness ==
    \E c \in Conns, d \in Conns :
        /\ connState[c] = "refused" /\ token[c].kind = "expired"
        /\ d > c
        /\ connState[d] = "open" /\ ScopeUser(d) = token[c].user_id
        /\ \E i \in 1..Len(sent[d]) : sent[d][i].type \in {"new_message", "notification"}

\* C2: once send_message has fanned message m out, every connection of another
\* participant that was live all along has been sent exactly one new_message and
\* exactly one conversation_update for m, new_message first; no connection, at any
\* time, is sent either twice or conversation_update before new_message; and no
\* connection of a user outside the conversation is sent any frame about m.
C2_FanOutOnceInOrder ==
    \A m \in 1..Len(messages), c \in Conns :
        LET new == Frames(c, "new_message", m)
            upd == Frames(c, "conversation_update", m)
        IN /\ Cardinality(new) <= 1
           /\ Cardinality(upd) <= 1
           /\ \A i \in new, j \in upd : i < j
           /\ (FanOutDone(m) /\ LiveSince(c, m) /\ ScopeUser(c) \in Participants(m)
                 /\ ScopeUser(c) # messages[m].sender)
                => (Cardinality(new) = 1 /\ Cardinality(upd) = 1)
           /\ (connState[c] # "new" /\ endpoint[c] = "chat"
                 /\ ScopeUser(c) \notin Participants(m))
                => \A i \in 1..Len(sent[c]) : sent[c][i].message # m

\* C2 witness: sender, another participant and an outsider are connected; the fan-out
\* of message 1 is over and the other participant holds both frames.
C2_Witness ==
    /\ Len(messages) >= 1
    /\ FanOutDone(1)
    /\ \E b \in Conns, x \in Conns :
          /\ LiveSince(b, 1) /\ ScopeUser(b) \in Participants(1)
          /\ ScopeUser(b) # messages[1].sender
          /\ Frames(b, "new_message", 1) # {} /\ Frames(b, "conversation_update", 1) # {}
          /\ LiveSince(x, 1) /\ ScopeUser(x) \notin Participants(1)

\* C3: the status of a receipt never decreases in SENT < DELIVERED < READ.
C3_ReceiptNeverRegresses ==
    [][\A x \in DOMAIN receipts : Rank(receipts'[x]) >= Rank(receipts[x])]_vars

\* C4: a step of mark_as_read made for the author of the message creates or alters
\* no receipt and leaves the read flag alone.
C4_AuthorMarkAsReadNoOp ==
    [][\A c \in Conns :
          (Stepped(c) /\ Acting(c).op \in {"mar_receipt", "mar_notify"}
             /\ messages[Acting(c).m].sender = ScopeUser(c))
          => (receipts' = receipts /\ messages' = messages)]_vars

\* C5: a closed connection is in no group.
C5_ClosedInNoGroup ==
    \A c \in Conns : connState[c] = "closed" => \A g \in GroupNames : c \notin groups[g]

\* C6: a send_notification call that read the category of its type switched off
\* creates no row, sends no e-mail or push and broadcasts nothing.
C6_CategoryOffCreatesNothing ==
    [][\A w \in Workers :
          (wpc[w].op = "sn_create" /\ wpc'[w] # wpc[w]
             /\ ~wpc[w].pref[Category(wpc[w].ntype)])
          => /\ notifications' = notifications
             /\ sent' = sent
             /\ wpc'[w] = WIdle]_vars

\* C7: a handler step of a user who is not a participant of the conversation it
\* names (or that names none that exists) changes no message, read flag or receipt
\* and sends nothing to a connection of another user; a frame that starts no handler
\* changes no persisted state either.
Unauthorized(c) ==
    \/ Acting(c).conv \notin DOMAIN conversations
    \/ ScopeUser(c) \notin conversations[Acting(c).conv].participants

C7_UnauthorizedNoEffect ==
    [][/\ \A c \in Conns :
            (Stepped(c) /\ endpoint[c] = "chat" /\ Unauthorized(c))
            => /\ messages' = messages
               /\ receipts' = receipts
               /\ \A d \in Conns : ScopeUser(d) # ScopeUser(c) => sent'[d] = sent[d]
       /\ (\A c \in Conns : ~Stepped(c)) => (messages' = messages /\ receipts' = receipts)
      ]_vars

\* C8: whenever message m exists, eventually every other participant of its
\* conversation holds a receipt for m (SENT or higher), clients being free to close
\* or to stay silent and handlers always running to their end.
C8_ReceiptEventually ==
    \A m \in MsgIds :
        (Len(messages) >= m) ~>
            (/\ Len(messages) >= m
             /\ \A p \in Participants(m) \ {messages[m].sender} :
                   Rank(receipts[<<m, p>>]) >= Rank("SENT"))

\* C9: the step that ends a join_conversation of connection c leaves c in the
\* conversation's group (a set: counted once), sends conversation_joined to c and
\* sends nothing to any other connection; conversation_joined frames only ever
\* reach connections of participants.
C9_JoinIdempotentAckToRequester ==
    [][\A c \in Conns :
          (Stepped(c) /\ pc[c].op = "join_loop" /\ pc'[c].op = "idle")
          => /\ c \in groups'[<<"conversation", pc[c].conv>>]
             /\ Cardinality({d \in groups'[<<"conversation", pc[c].conv>>] : d = c}) = 1
             /\ sent'[c] = Append(sent[c], Frame("conversation_joined", 0, pc[c].conv, 0))
             /\ \A d \in Conns \ {c} : sent'[d] = sent[d]]_vars

\* C9 witness: a connection that joined the same conversation twice.
C9_Witness ==
    \E c \in Conns, k \in ConvIds :
        /\ Cardinality({i \in 1..Len(sent[c]) :
               sent[c][i].type = "conversation_joined" /\ sent[c][i].conversation = k}) = 2
        /\ c \in groups[<<"conversation", k>>]

\* C10: the DeviceToken table never holds two rows with the same token; and when a
\* register_device(u, t) call returns, the row of t is active and owned by u, so that
\* the active tokens of no other user include t.
C10_OneRowPerTokenOwnedByLastCaller ==
    [][/\ \A t \in PushTokens : Cardinality({r \in deviceTokens' : r.token = t}) <= 1
       /\ \A w \in Workers :
            (wpc[w].op \in {"rd_create", "rd_save"} /\ wpc'[w] = WIdle)
            => /\ \E r \in deviceTokens' :
                     r.token = wpc[w].tok /\ r.user = wpc[w].user /\ r.is_active
               /\ \A r \in deviceTokens' :
                     (r.token = wpc[w].tok /\ r.is_active) => r.user = wpc[w].user]_vars

\* C10 witness: a push went out to user 1 through the token, and the one row of the
\* token is now active and owned by user 2.
C10_Witness ==
    /\ \E n \in pushed : notifications[n].recipient = 1
    /\ \E r \in deviceTokens : r.token = "T" /\ r.user = 2 /\ r.is_active
    /\ Cardinality(deviceTokens) = 1
    /\ \A w \in Workers : wpc[w] = WIdle

\* C11: no message is created in a conversation whose active flag is false.
C11_NoMessageInDeactivated ==
    [][Len(messages') > Len(messages)
         => conversations[messages'[Len(messages')].conversation].is_active]_vars

C13_MarkAsReadRecordsRead ==
    [][/\ \A c \in Conns :
            (/\ pc[c].op = "mar_receipt" /\ pc'[c].op = "mar_notify"
             /\ messages[pc[c].m].sender # ScopeUser(c))
            => /\ messages'[pc[c].m].is_read
               /\ receipts'[<<pc[c].m, ScopeUser(c)>>] = "READ"
       /\ \A w \in Workers :
            (wpc[w].op = "hm_receipt" /\ wpc'[w] = WIdle)
            => /\ messages'[wpc[w].n].is_read
               /\ receipts'[<<wpc[w].n, wpc[w].user>>] = "READ"]_vars

\* C14: the step of mark_as_read that notifies writes message_read, naming the
\* message and the reader, to every live connection of the message's author and to
\* no other connection.
C14_MessageReadToAuthorOnly ==
    [][\A c \in Conns :
          (pc[c].op = "mar_notify" /\ Stepped(c))
          => \A d \in Conns :
                IF /\ connState[d] = "open" /\ endpoint[d] = "chat"
                   /\ ScopeUser(d) = messages[pc[c].m].sender
                THEN sent'[d] = Append(sent[d],
                         Frame("message_read", pc[c].m, messages[pc[c].m].conversation,
                               ScopeUser(c)))
                ELSE sent'[d] = sent[d]]_vars

\* C14 witness: a reader who is not the author has marked message 1; the author's
\* connection holds message_read and the reader's live connection holds none.
C14_Witness ==
    /\ Len(messages) >= 1
    /\ \E a \in Conns, b \in Conns :
          /\ connState[a] = "open" /\ ScopeUser(a) = messages[1].sender
          /\ connState[b] = "open" /\ ScopeUser(b) # messages[1].sender
          /\ pc[b] = Idle
          /\ \E i \in Frames(a, "message_read", 1) : sent[a][i].user = ScopeUser(b)
          /\ Frames(b, "message_read", 1) = {}

\* C15: a typing action changes no table. Its handler starts only for a participant
\* of the conversation, with every other participant to notify, and ends only when
\* none is left; each of its sends writes user_typing, naming the sender, to every
\* live connection of one other participant and to no other connection. No other
\* step writes a user_typing frame, so a non-participant's typing delivers nothing.
C15_TypingToOtherParticipants ==
    [][/\ \A c \in Conns :
            (Stepped(c) /\ Acting(c).op = "typing")
            => /\ chatDb' = chatDb
               /\ ScopeUser(c) \in conversations[Acting(c).conv].participants
               /\ IF pc[c].op = "idle"
                  THEN /\ sent' = sent
                       /\ pc'[c].todo =
                             conversations[pc'[c].conv].participants \ {ScopeUser(c)}
                  ELSE \E p \in pc[c].todo :
                          /\ p # ScopeUser(c)
                          /\ p \in conversations[pc[c].conv].participants
                          /\ IF pc'[c].op = "idle" THEN pc[c].todo = {p}
                             ELSE pc'[c].todo = pc[c].todo \ {p}
                          /\ \A d \in Conns :
                                IF /\ connState[d] = "open" /\ endpoint[d] = "chat"
                                   /\ ScopeUser(d) = p
                                THEN sent'[d] = Append(sent[d],
                                         Frame("user_typing", 0, pc[c].conv, ScopeUser(c)))
                                ELSE sent'[d] = sent[d]
       /\ \A d \in Conns :
            (Len(sent'[d]) > Len(sent[d]) /\ sent'[d][Len(sent'[d])].type = "user_typing")
            => \E c \in Conns : pc[c].op = "typing" /\ Stepped(c)]_vars

\* C15 witness: user 1 has typed in conversation 1; the other participant's connection
\* holds user_typing, and the live connections of the sender and of an outsider hold
\* nothing.
C15_Witness ==
    \E a \in Conns, b \in Conns, x \in Conns :
        /\ connState[a] = "open" /\ connState[b] = "open" /\ connState[x] = "open"
        /\ ScopeUser(a) = 1 /\ ScopeUser(b) = 2 /\ ScopeUser(x) = 3
        /\ pc[a] = Idle
        /\ sent[b] = <<Frame("user_typing", 0, 1, 1)>>
        /\ sent[a] = <<>> /\ sent[x] = <<>>

\* C16: when a join_conversation of participant U on conversation K completes, the
\* connection is sent conversation_joined and every unread message of K that U did
\* not write has a receipt for U of status DELIVERED or READ; a connection enters a
\* conversation group, and is sent conversation_joined, only as a participant.
C16_JoinDeliversUnread ==
    [][\A c \in Conns :
          /\ (pc[c].op = "join_loop" /\ pc'[c] = Idle)
             => /\ sent'[c] = Append(sent[c], Frame("conversation_joined", 0, pc[c].conv, 0))
                /\ \A m \in 1..Len(messages') :
                      (/\ messages'[m].conversation = pc[c].conv
                       /\ messages'[m].sender # ScopeUser(c)
                       /\ ~messages'[m].is_read)
                      => Rank(receipts'[<<m, ScopeUser(c)>>]) >= Rank("DELIVERED")
          /\ \A k \in ConvIds :
                (c \in groups'[<<"conversation", k>>] \ groups[<<"conversation", k>>])
                => user_in_conversation(ScopeUser(c), k)]_vars

\* C17: no step lowers a conversation's updated_at, and the save that follows a
\* message creation, on the socket or over HTTP, raises it.
C17_UpdatedAtMonotone ==
    [][/\ \A k \in DOMAIN conversations :
             conversations'[k].updated_at >= conversations[k].updated_at
       /\ \A c \in Conns :
             (Len(messages') > Len(messages) /\ pc'[c].op = "sm_fetch" /\ Stepped(c))
             => conversations'[pc'[c].conv].updated_at
                   > conversations[pc'[c].conv].updated_at
       /\ \A w \in Workers :
             (wpc[w].op = "hc_save" /\ wpc'[w].op = "hc_mark")
             => conversations'[wpc[w].row].updated_at
                   > conversations[wpc[w].row].updated_at]_vars

\* C18: the step that creates a notification writes one notification frame for it to
\* every live notification connection of the recipient and to no other connection
\* (or to none at all when the channel layer raised, which the receiver drops); no
\* other step writes a notification frame, the saves of the delivery flags included;
\* and the call goes on to return the row it created, whoever is connected.
C18_BroadcastOnceAtCreation ==
    [][/\ Len(notifications') > Len(notifications)
          => LET n == Len(notifications')
                 u == notifications'[n].recipient
             IN /\ n = Len(notifications) + 1
                /\ \/ sent' = sent
                   \/ \A c \in Conns :
                         IF /\ connState[c] = "open" /\ endpoint[c] = "notifications"
                            /\ ScopeUser(c) = u
                         THEN sent'[c] = Append(sent[c], Frame("notification", n, 0, u))
                         ELSE sent'[c] = sent[c]
                /\ \E w \in Workers :
                      /\ wpc[w].op = "sn_create" /\ wpc'[w].op = "sn_email"
                      /\ wpc'[w].n = n /\ wpc[w].user = u
       /\ Len(notifications') = Len(notifications)
          => \A c \in Conns :
                Len(sent'[c]) > Len(sent[c])
                => sent'[c][Len(sent'[c])].type # "notification"
       /\ \A w \in Workers :
             (wpc[w].op = "sn_push" /\ wpc'[w] = WIdle)
             => /\ wpc[w].n \in 1..Len(notifications')
                /\ notifications'[wpc[w].n].recipient = wpc[w].user]_vars

\* C18 witness: a call for user 1 has returned after saving the email flag; user 1's
\* live connection holds the one notification frame, user 2's live connection none.
C18_Witness ==
    \E a \in Conns, b \in Conns :
        /\ connState[a] = "open" /\ connState[b] = "open"
        /\ endpoint[a] = "notifications" /\ endpoint[b] = "notifications"
        /\ ScopeUser(a) = 1 /\ ScopeUser(b) = 2
        /\ Len(notifications) = 1 /\ notifications[1].is_email_sent
        /\ \A w \in Workers : wpc[w] = WIdle
        /\ sent[a] = <<Frame("notification", 1, 0, 1)>>
        /\ sent[b] = <<>>

\* C19: the email step of send_notification always hands over to the push step,
\* whether the send worked or not, and keeps every notification row; it sets
\* is_email_sent only on the call's own row, only when email was requested, the
\* master email preference the call read was on and send_mail was called; the
\* preference the call works with is the recipient's stored one; and no other step
\* changes is_email_sent.
C19_EmailFailureContained ==
    [][/\ \A w \in Workers :
             (wpc[w].op = "sn_email" /\ wpc'[w] # wpc[w])
             => /\ wpc'[w] = [wpc[w] EXCEPT !.op = "sn_push"]
                /\ Len(notifications') = Len(notifications)
                /\ wpc[w].n \in 1..Len(notifications)
                /\ \A n \in 1..Len(notifications) :
                      IF n = wpc[w].n /\ notifications'[n].is_email_sent
                      THEN /\ wpc[w].send_email
                           /\ wpc[w].pref["receive_email"]
                           /\ n \in emailed'
                           /\ notifications'[n] =
                                 [notifications[n] EXCEPT !.is_email_sent = TRUE]
                      ELSE notifications'[n] = notifications[n]
       /\ \A w \in Workers :
             (wpc[w].op = "idle" /\ wpc'[w].op = "sn_create")
             => \E r \in prefs' : r.user = wpc'[w].user /\ r.flags = wpc'[w].pref
       /\ \A n \in 1..Len(notifications) :
             notifications'[n].is_email_sent # notifications[n].is_email_sent
             => \E w \in Workers : wpc[w].op = "sn_email" /\ wpc[w].n = n]_vars

\* C19 witness: send_mail was called for notification 1 and failed; the call has gone
\* through the push step and returned, the row is there with is_email_sent false.
C19_Witness ==
    /\ Len(notifications) = 1
    /\ 1 \in emailed
    /\ ~notifications[1].is_email_sent
    /\ \A w \in Workers : wpc[w] = WIdle

\* C20: the push step of send_notification always returns, keeping every notification
\* row; it sets is_push_sent only on the call's own row, only when push was requested,
\* the master push preference the call read was on and, at that moment, some active
\* device token belonged to the recipient (so never with zero active tokens); and no
\* other step changes is_push_sent.
C20_PushNeedsActiveToken ==
    [][/\ \A w \in Workers :
             (wpc[w].op = "sn_push" /\ wpc'[w] # wpc[w])
             => /\ wpc'[w] = WIdle
                /\ Len(notifications') = Len(notifications)
                /\ wpc[w].n \in 1..Len(notifications)
                /\ \A n \in 1..Len(notifications) :
                      IF n = wpc[w].n /\ notifications'[n].is_push_sent
                      THEN /\ wpc[w].send_push
                           /\ wpc[w].pref["receive_push"]
                           /\ \E r \in deviceTokens :
                                 r.user = notifications[n].recipient /\ r.is_active
                           /\ notifications'[n] =
                                 [notifications[n] EXCEPT !.is_push_sent = TRUE]
                      ELSE notifications'[n] = notifications[n]
       /\ \A n \in 1..Len(notifications) :
             notifications'[n].is_push_sent # notifications[n].is_push_sent
             => \E w \in Workers : wpc[w].op = "sn_push" /\ wpc[w].n = n]_vars

\* C20 witness: a push was requested for a recipient whose only token is deactivated
\* or has gone to another user; the call returned and is_push_sent is false.
C20_Witness ==
    /\ Len(notifications) = 1
    /\ ~notifications[1].is_push_sent
    /\ \A w \in Workers : wpc[w] = WIdle
    /\ deviceTokens # {}
    /\ \A r \in deviceTokens : r.user # notifications[1].recipient \/ ~r.is_active
    /\ \E r \in prefs : r.user = notifications[1].recipient /\ r.flags["receive_push"]

\* C21: no preference row, notification row, email, push or notification frame ever
\* names an id that is not a user's; a send_notification for such an id changes
\* nothing when it looks the recipient up and nothing but its own position when it
\* returns, and it goes nowhere but to its return.
C21_MissingRecipientNoOp ==
    [][/\ \A r \in prefs' : r.user \in Users
       /\ \A n \in 1..Len(notifications') : notifications'[n].recipient \in Users
       /\ emailed' \subseteq 1..Len(notifications')
       /\ pushed' \subseteq 1..Len(notifications')
       /\ \A c \in Conns : \A i \in 1..Len(sent'[c]) :
             sent'[c][i].type = "notification" => sent'[c][i].user \in Users
       /\ \A w \in Workers :
             /\ (wpc'[w].op \notin {"idle", "sn_missing"} /\ wpc'[w].op # wpc[w].op)
                => wpc'[w].user \in Users
             /\ (wpc'[w].op = "sn_missing" /\ wpc[w].op # "sn_missing")
                => /\ wpc'[w].user \notin Users
                   /\ UNCHANGED <<prefs, notifications, deviceTokens, emailed, pushed,
                                  sent, groups>>
             /\ (wpc[w].op = "sn_missing" /\ wpc'[w] # wpc[w])
                => /\ wpc'[w] = WIdle
                   /\ UNCHANGED <<prefs, notifications, deviceTokens, emailed, pushed,
                                  sent, groups>>]_vars

\* C21 witness: a call for id 4, which no user has, is in its except clause while a
\* notification connection is live: no row, no delivery, no frame.
C21_Witness ==
    /\ ops = 2
    /\ \E c \in Conns : connState[c] = "open" /\ endpoint[c] = "notifications"
    /\ \A c \in Conns : sent[c] = <<>>
    /\ \E w \in Workers : wpc[w].op = "sn_missing" /\ wpc[w].user = 4
    /\ notifications = <<>> /\ emailed = {} /\ pushed = {}
    /\ \A r \in prefs : r.user # 4

\* C22: a read flag of a notification changes only from false to true and only in a
\* mark_as_read or mark_all_as_read step of a live notification connection of its
\* recipient; these steps and their acks change no other field, row or table and
\* write to no connection but the requester's; and a mark_as_read ack names a
\* notification of the requester.
C22_MarkReadOwnOnly ==
    [][/\ \A n \in 1..Len(notifications) :
             notifications'[n].is_read # notifications[n].is_read
             => /\ notifications'[n] = [notifications[n] EXCEPT !.is_read = TRUE]
                /\ \E c \in Conns :
                      /\ connState[c] = "open" /\ endpoint[c] = "notifications"
                      /\ ScopeUser(c) = notifications[n].recipient
                      /\ pc[c].op = "idle" /\ pc'[c].op \in {"nm_ack", "nma_ack"}
       /\ \A c \in Conns :
             (Stepped(c) /\ Acting(c).op \in {"nm_ack", "nma_ack"})
             => /\ Len(notifications') = Len(notifications)
                /\ \A n \in 1..Len(notifications) :
                      \/ notifications'[n] = notifications[n]
                      \/ /\ notifications[n].recipient = ScopeUser(c)
                         /\ notifications'[n] = [notifications[n] EXCEPT !.is_read = TRUE]
                /\ UNCHANGED <<prefs, deviceTokens, emailed, pushed, wpc, chatDb, groups>>
                /\ \A d \in Conns \ {c} : sent'[d] = sent[d]
                /\ (pc[c].op = "nm_ack")
                   => /\ pc[c].m \in 1..Len(notifications)
                      /\ notifications[pc[c].m].recipient = ScopeUser(c)
                      /\ notifications[pc[c].m].is_read
                      /\ sent'[c] = Append(sent[c],
                            Frame("notification_marked_as_read", pc[c].m, 0, 0))
       /\ \A d \in Conns :
             (/\ Len(sent'[d]) > Len(sent[d])
              /\ sent'[d][Len(sent'[d])].type \in
                    {"notification_marked_as_read", "all_notifications_marked_as_read"})
             => pc[d].op \in {"nm_ack", "nma_ack"} /\ pc'[d] = Idle]_vars

\* C22 witness: users 1 and 2 are connected, user 1 has marked the notification it
\* was sent and holds the ack; user 2's connection holds nothing.
C22_Witness ==
    \E a \in Conns, b \in Conns :
        /\ connState[a] = "open" /\ connState[b] = "open"
        /\ endpoint[a] = "notifications" /\ endpoint[b] = "notifications"
        /\ ScopeUser(a) = 1 /\ ScopeUser(b) = 2
        /\ Len(notifications) = 1 /\ notifications[1].recipient = 1
        /\ notifications[1].is_read
        /\ sent[a] = <<Frame("notification", 1, 0, 1),
                       Frame("notification_marked_as_read", 1, 0, 0)>>
        /\ sent[b] = <<>>

\* C23: a register_device that returns leaves the token's record active; an
\* unregister_device of a known token leaves it inactive and reports success, one of
\* an unknown token changes no record and reports failure; and no other step adds a
\* record or changes the active flag of one, so between calls the record is active
\* exactly when the last call on the token was a register.
C23_ActiveIffLastCallRegister ==
    [][/\ \A w \in Workers :
             (wpc[w].op \in {"rd_create", "rd_save"} /\ wpc'[w] = WIdle)
             => \E r \in deviceTokens' : r.token = wpc[w].tok /\ r.is_active
       /\ \A w \in Workers :
             (wpc[w].op = "un_call" /\ wpc'[w] # wpc[w])
             => IF \E r \in deviceTokens : r.token = wpc[w].tok
                THEN /\ wpc'[w].op = "un_true"
                     /\ \A r \in deviceTokens' : r.token = wpc[w].tok => ~r.is_active
                     /\ {r \in deviceTokens' : r.token # wpc[w].tok}
                           = {r \in deviceTokens : r.token # wpc[w].tok}
                     /\ Cardinality(deviceTokens') = Cardinality(deviceTokens)
                ELSE /\ wpc'[w].op = "un_false"
                     /\ deviceTokens' = deviceTokens
       /\ \A t \in RequestTokens :
             {r \in deviceTokens' : r.token = t} # {r \in deviceTokens : r.token = t}
             => \E w \in Workers :
                   /\ wpc[w].tok = t /\ wpc'[w] # wpc[w]
                   /\ wpc[w].op \in {"rd_create", "rd_save", "un_call"}]_vars

\* C23 witness: token T was registered and then unregistered, its record is inactive;
\* an unregister_device of the unknown token U has reported failure and no record
\* of U exists.
C23_Witness ==
    /\ \E r \in deviceTokens : r.token = "T" /\ ~r.is_active
    /\ \A r \in deviceTokens : r.token = "T"
    /\ \E w \in Workers : wpc[w].op = "un_false" /\ wpc[w].tok = "U"

\* C30: when an unregistration request of user u clears the active flag of a device
\* token's record, u is the owner of that record.
C30_OnlyOwnerDeactivates ==
    [][\A w \in Workers :
          (wpc[w].op = "un_call" /\ wpc'[w] # wpc[w] /\ wpc[w].user \in Users)
          => \A r \in deviceTokens :
                (r.is_active /\ r.token = wpc[w].tok /\ r \notin deviceTokens')
                => r.user = wpc[w].user]_vars

\* C24: no user ever has two NotificationPreference rows, and a row that appears has
\* every category flag and both master toggles true.
C24_OnePreferenceRowPerUser ==
    [][/\ \A u \in Users : Cardinality({r \in prefs' : r.user = u}) <= 1
       /\ \A r \in prefs' :
             (\A q \in prefs : q.id # r.id)
             => \A f \in PrefFields : r.flags[f]]_vars

\* C24 witness: two get-or-creates for user 3 both missed the row; one has created it
\* and the other is about to try its own INSERT.
C24_Witness ==
    /\ Cardinality({r \in prefs : r.user = 3}) = 1
    /\ \E w \in Workers, v \in Workers :
          /\ w # v
          /\ wpc[w].op \in {"sn_pref", "pv_create", "uc_signal"}
          /\ wpc[w].user = 3
          /\ wpc[v].op \in {"sn_create", "pv_return"}
          /\ wpc[v].user = 3

\* C25: the fan-out of a sent message starts with all the participants of the
\* conversation, the sender among them, to serve, and serves one of those left at each
\* turn until none is left; the chat_message of a turn puts a new_message frame on every
\* live connection of the participant served and on no other connection; and in every
\* new_message frame a connection is sent, is_sender is true exactly when the
\* connection's user wrote the message.
C25_ChatMessageToAllWithIsSender ==
    [][/\ \A c \in Conns :
             /\ (pc[c].op = "sm_fetch" /\ Stepped(c))
                => /\ pc'[c].op \in {"sm_receipt", "sm_chat"}
                   /\ pc'[c].todo \cup {pc'[c].p}
                         = conversations[pc[c].conv].participants
                   /\ pc'[c].p \notin pc'[c].todo
                   /\ ScopeUser(c) \in conversations[pc[c].conv].participants
             /\ (pc[c].op = "sm_receipt" /\ Stepped(c))
                => pc'[c] = [pc[c] EXCEPT !.op = "sm_chat"]
             /\ (pc[c].op = "sm_chat" /\ Stepped(c))
                => /\ pc'[c] = [pc[c] EXCEPT !.op = "sm_update"]
                   /\ \A d \in Conns :
                         IF /\ connState[d] = "open" /\ endpoint[d] = "chat"
                            /\ ScopeUser(d) = pc[c].p
                         THEN sent'[d] = Append(sent[d],
                                 [Frame("new_message", pc[c].m, pc[c].conv, ScopeUser(c))
                                     EXCEPT !.is_sender = (ScopeUser(d) = ScopeUser(c))])
                         ELSE sent'[d] = sent[d]
             /\ (pc[c].op = "sm_update" /\ Stepped(c))
                => IF pc[c].todo = {} THEN pc'[c] = Idle
                   ELSE /\ pc'[c].op \in {"sm_receipt", "sm_chat"}
                        /\ pc'[c].p \in pc[c].todo
                        /\ pc'[c].todo = pc[c].todo \ {pc'[c].p}
                        /\ pc'[c].m = pc[c].m
       /\ \A d \in Conns :
             (Len(sent'[d]) > Len(sent[d]) /\ sent'[d][Len(sent'[d])].type = "new_message")
             => LET f == sent'[d][Len(sent'[d])]
                IN /\ f.message \in 1..Len(messages)
                   /\ f.is_sender = (ScopeUser(d) = messages[f.message].sender)]_vars

\* C25 witness: the fan-out of message 1 is over; the author's connection holds its
\* new_message with is_sender true, the other participant's with is_sender false.
C25_Witness ==
    /\ Len(messages) = 1
    /\ FanOutDone(1)
    /\ \E a \in Conns, b \in Conns :
          /\ LiveSince(a, 1) /\ LiveSince(b, 1)
          /\ ScopeUser(a) = messages[1].sender
          /\ ScopeUser(b) \in Participants(1) \ {messages[1].sender}
          /\ \E i \in Frames(a, "new_message", 1) : sent[a][i].is_sender
          /\ \E i \in Frames(b, "new_message", 1) : ~sent[b][i].is_sender

\* C26: no step changes the author, the conversation, the content or the type of a
\* message that exists.
C26_MessageFieldsImmutable ==
    [][\A m \in 1..Len(messages) :
          /\ messages'[m].sender = messages[m].sender
          /\ messages'[m].conversation = messages[m].conversation
          /\ messages'[m].content = messages[m].content
          /\ messages'[m].message_type = messages[m].message_type]_vars

\* A conversation that a request has created and not yet given its participants.
BeingCreated(k) == \E w \in Workers : wpc[w].op = "cv_add" /\ wpc[w].row = k

\* C27: every conversation whose creation is over has at least two participants.
C27_AtLeastTwoParticipants ==
    \A k \in DOMAIN conversations :
        ~BeingCreated(k) => Cardinality(conversations[k].participants) >= 2

\* C28: no two conversations whose creation is over have the same pair of participants.
C28_OneConversationPerPair ==
    \A k \in DOMAIN conversations, j \in DOMAIN conversations :
        (/\ k # j /\ ~BeingCreated(k) /\ ~BeingCreated(j)
         /\ Cardinality(conversations[k].participants) = 2)
        => conversations[k].participants # conversations[j].participants

\* Notification n is in frames q: as a live notification event or as an item of an
\* unread_notifications snapshot.
Reached(q, n) ==
    \E i \in 1..Len(q) :
        \/ q[i].type = "notification" /\ q[i].message = n
        \/ q[i].type = "unread_notifications"
           /\ \E j \in 1..Len(q[i].items) : q[i].items[j] = n

UnreadOf(u) ==
    {n \in 1..Len(notifications) : notifications[n].recipient = u /\ ~notifications[n].is_read}

\* C29: a notification connection is in its user's group from the moment it is about
\* to query its snapshot; when its set-up ends with fewer than 20 unread notifications,
\* every unread notification of its user has reached it; and a notification created
\* for a user reaches, as a live event, every connection then in the user's group
\* (or none at all, when the channel layer raised and the receiver dropped the error).
C29_SnapshotOrLiveEvent ==
    [][/\ \A c \in Conns :
             pc'[c].op = "nc_unread"
             => c \in groups'[<<"notifications", JWTAuthMiddleware(token'[c])>>]
       /\ \A c \in Conns :
             (/\ pc[c].op = "nc_unread" /\ pc'[c].op = "idle"
              /\ Cardinality(UnreadOf(ScopeUser(c))) < UnreadLimit)
             => \A n \in UnreadOf(ScopeUser(c)) : Reached(sent'[c], n)
       /\ Len(notifications') > Len(notifications)
          => \/ sent' = sent
             \/ \A c \in groups[<<"notifications",
                                  notifications'[Len(notifications')].recipient>>] :
                   connState[c] = "open"
                   => Reached(sent'[c], Len(notifications'))]_vars

\* C29 witness: user 1's connection is set up and holds notification 1 twice, as the live
\* event sent after the join and as an item of the snapshot queried after it.
C29_Witness ==
    \E c \in Conns :
        /\ connState[c] = "open" /\ endpoint[c] = "notifications" /\ pc[c].op = "idle"
        /\ ScopeUser(c) = 1
        /\ Len(notifications) = 1 /\ notifications[1].recipient = 1
        /\ sent[c] = <<Frame("notification", 1, 0, 1),
                       [Frame("unread_notifications", 0, 0, 0) EXCEPT !.items = <<1>>]>>

====
